---- MODULE Spec2Model ----
(***************************************************************************)
(* MDQ questionnaire scoring and classification of Zjy020422/mental_abby.  *)
(*                                                                         *)
(* Two scoring schemes live side by side in the repository:                *)
(*   - Binary ("standard MDQ"): analyse.py MDQAnalyzer and database.py     *)
(*     DatabaseManager;                                                    *)
(*   - FiveLevel: the MDQAnalyzer of "analyse copy.py" (unnamed/part_000)  *)
(*     and the DatabaseManager of "database copy.py" (tail of app.py).     *)
(*                                                                         *)
(* Spec: one questionnaire (test_data) is drawn by Init; every action is   *)
(* one of the scoring entry points applied to it.                          *)
(* HistorySpec: a test history is drawn by Init; every action is one of    *)
(* the trend and improvement analyses applied to it.                       *)
(* AnalysisSpec: a history and the newest test's detail are drawn by Init; *)
(* every action is one analyzer's analyze_user_comprehensive.              *)
(* RiskSpec: the arguments of _calculate_risk_percentage are drawn by Init  *)
(* and the calculation of either scheme is applied to them.                *)
(* StoreSpec: a database of users is drawn by Init; the actions analyse a  *)
(* stored user, saving the result, or run BatchAnalyzer.analyze_all_users. *)
(* LoginSpec: DatabaseManager.login_user on one account while time passes, *)
(* on a server whose time zone is drawn by Init.                           *)
(* ProgressSpec: the test progress API of app.py with concurrent           *)
(* save-progress requests.                                                 *)
(* Percentages are kept in tenths of a percent (the code rounds them to    *)
(* one decimal), confidences and consistency scores in hundredths.         *)
(***************************************************************************)
EXTENDS Integers, Sequences, FiniteSets, TLC

VARIABLES
    test_data,     \* the stored questionnaire: questions, co_occurrence, severity
    test_history,  \* the subject's questionnaire_tests rows, newest first
    detail_loads,  \* get_mdq_test_detail finds the newest row and returns it
    args,          \* the arguments of a directly called calculation or request
    op,            \* the entry point that has run ("none" before)
    result,        \* what that entry point returned
    questionnaire_tests,   \* per user id: the stored history and newest detail
    mdq_analysis_results,  \* the rows _save_analysis_result has written
    users,         \* the users table: the account's login columns
    user_sessions, \* the number of rows of the user_sessions table
    clock,         \* the time in seconds (UTC)
    utc_offset,    \* the server's local time zone, in seconds ahead of UTC
    test_progress, \* the test_progress table: whether it exists, and its rows
    requests       \* the progress requests in flight, each with its locals

\* what the scoring and analysis entry points read and never write
inputs == <<test_data, test_history, detail_loads, args>>

\* the tables the analyses of stored users read and write
store == <<questionnaire_tests, mdq_analysis_results>>

\* the tables of the login
accounts == <<users, user_sessions, clock, utc_offset>>

\* the table and requests of the test progress API
progress == <<test_progress, requests>>

vars == <<inputs, op, result, store, accounts, progress>>

\* no calculation is called directly
NoArgs == args = <<>>

\* the analyses of stored users are not part of the behaviour
NoStore ==
    /\ questionnaire_tests = <<>>
    /\ mdq_analysis_results = <<>>

\* the login is not part of the behaviour
NoAccounts ==
    /\ users = <<>>
    /\ user_sessions = 0
    /\ clock = 0
    /\ utc_offset = 0

\* the test progress API is not part of the behaviour
NoProgress ==
    /\ test_progress = [exists |-> FALSE, rows |-> <<>>]
    /\ requests = <<>>

-----------------------------------------------------------------------------
(* Bounds of the explored inputs *)

\* number of keys other than q1..q13 a questions map may carry
MaxExtraKeys == 1

\* longest test history explored
MaxHistory == 6

\* longest test history whose rows vary freely (score and timestamp of each)
MaxFreeHistory == 3

\* number of user ids with stored data
MaxUsers == 2

\* number of rows of mdq_analysis_results explored
MaxSaved == 3

\* number of clock ticks explored
MaxTicks == 5

\* largest failed_login_attempts explored
MaxFailed == 7

\* number of rows of user_sessions explored
MaxSessions == 2

\* number of save-progress requests in flight at once
MaxRequests == 2

\* number of rows of test_progress explored
MaxRows == 2

\* number of clock ticks explored while progress is saved
MaxProgressTicks == 1

-----------------------------------------------------------------------------
(* Python helpers *)

\* dict.get(key, default)
Get(d, k, default) == IF k \in DOMAIN d THEN d[k] ELSE default

\* value of dict.get(key) when the key is missing
None == "<None>"

Min(a, b) == IF a <= b THEN a ELSE b

Max(a, b) == IF a >= b THEN a ELSE b

\* round(n/d) for n >= 0, d > 0; the quotients rounded here never fall on a tie,
\* so Python's round-half-even and round-half-up agree
RoundDiv(n, d) == (2 * n + d) \div (2 * d)

RECURSIVE SumOver(_, _)
\* sum(f[k] for k in S)
SumOver(S, f) ==
    IF S = {} THEN 0
    ELSE LET k == CHOOSE x \in S : TRUE
         IN  f[k] + SumOver(S \ {k}, f)

-----------------------------------------------------------------------------
(* Question identifiers *)

\* number of MDQ part-1 questions: range(1, 14)
NumQuestions == 13

\* [f'q{i}' for i in range(1, 14)]
QIdSeq == [i \in 1..NumQuestions |-> "q" \o ToString(i)]

QIds == {QIdSeq[i] : i \in 1..NumQuestions}

\* keys a stored questions map may carry besides q1..q13
ExtraKeys == {"q" \o ToString(NumQuestions + i) : i \in 1..MaxExtraKeys}

-----------------------------------------------------------------------------
(* Binary scheme: tables of analyse.py MDQAnalyzer / database.py DatabaseManager *)

core_symptoms == <<"q1", "q2", "q3", "q4", "q5", "q6", "q7">>

functional_impact_mapping ==
    [no |-> "no_problems", minor |-> "minor_problems",
     moderate |-> "moderate_problems", serious |-> "serious_problems"]

mdq_thresholds ==
    [screening_cutoff |-> 7, high_sensitivity |-> 5, high_specificity |-> 9]

-----------------------------------------------------------------------------
(* Binary scheme: result decision, severity and risk.  The DatabaseManager    *)
(* methods (_standard suffix) are separate code, modelled separately.         *)

SeverityLevel == <<"negative", "mild_positive", "moderate_positive", "high_positive">>

\* _determine_mdq_result with the cutoff compared by <= : a total of exactly 7
\* is screened out
_determine_mdq_result_cutoff_inclusive(part1_score, has_co_occurrence, functional_impact_level) ==
    IF part1_score <= mdq_thresholds["screening_cutoff"] THEN "negative"
    ELSE IF ~has_co_occurrence THEN "negative"
    ELSE IF functional_impact_level = "no_problems" THEN "positive_subclinical"
    ELSE IF functional_impact_level = "serious_problems" THEN "positive_high"
    ELSE IF functional_impact_level = "moderate_problems" THEN "positive_moderate"
    ELSE "positive_mild"

\* analyse.py MDQAnalyzer._determine_mdq_result
_determine_mdq_result(part1_score, has_co_occurrence, functional_impact_level) ==
    IF part1_score < mdq_thresholds["screening_cutoff"] THEN "negative"
    ELSE IF ~has_co_occurrence THEN "negative"
    ELSE IF functional_impact_level = "no_problems" THEN "positive_subclinical"
    ELSE IF functional_impact_level = "serious_problems" THEN "positive_high"
    ELSE IF functional_impact_level = "moderate_problems" THEN "positive_moderate"
    ELSE "positive_mild"

\* database.py DatabaseManager._determine_mdq_result_standard
_determine_mdq_result_standard(mdq_score, has_co_occurrence, functional_impact_level) ==
    IF mdq_score < mdq_thresholds["screening_cutoff"] THEN "negative"
    ELSE IF ~has_co_occurrence THEN "negative"
    ELSE IF functional_impact_level = "no_problems" THEN "positive_subclinical"
    ELSE IF functional_impact_level = "serious_problems" THEN "positive_high"
    ELSE IF functional_impact_level = "moderate_problems" THEN "positive_moderate"
    ELSE "positive_mild"

\* _determine_severity_level without the positive_subclinical case: that
\* category falls through to the score-based branch
_determine_severity_level_subclinical_by_score(part1_score, has_co_occurrence, functional_impact_level, mdq_result) ==
    IF mdq_result = "negative" THEN "negative"
    ELSE IF mdq_result = "positive_mild" THEN "mild_positive"
    ELSE IF mdq_result = "positive_moderate" THEN "moderate_positive"
    ELSE IF mdq_result = "positive_high" THEN "high_positive"
    ELSE IF part1_score >= 10 THEN "high_positive"
    ELSE IF part1_score >= 8 THEN "moderate_positive"
    ELSE "mild_positive"

\* analyse.py MDQAnalyzer._determine_severity_level
_determine_severity_level(part1_score, has_co_occurrence, functional_impact_level, mdq_result) ==
    IF mdq_result = "negative" THEN "negative"
    ELSE IF mdq_result = "positive_mild" \/ mdq_result = "positive_subclinical"
         THEN "mild_positive"
    ELSE IF mdq_result = "positive_moderate" THEN "moderate_positive"
    ELSE IF mdq_result = "positive_high" THEN "high_positive"
    ELSE IF part1_score >= 10 THEN "high_positive"
    ELSE IF part1_score >= 8 THEN "moderate_positive"
    ELSE "mild_positive"

\* database.py DatabaseManager._determine_severity_level_standard
_determine_severity_level_standard(mdq_score, has_co_occurrence, functional_impact_level, mdq_result) ==
    IF mdq_result = "negative" THEN "negative"
    ELSE IF mdq_result = "positive_mild" \/ mdq_result = "positive_subclinical"
         THEN "mild_positive"
    ELSE IF mdq_result = "positive_moderate" THEN "moderate_positive"
    ELSE IF mdq_result = "positive_high" THEN "high_positive"
    ELSE IF mdq_score >= 10 THEN "high_positive"
    ELSE IF mdq_score >= 8 THEN "moderate_positive"
    ELSE "mild_positive"

\* the functional_risk dictionary of both risk functions
functional_risk ==
    [no_problems |-> 0, minor_problems |-> 5,
     moderate_problems |-> 15, serious_problems |-> 25]

\* _calculate_risk_percentage without the final min(100, max(0, ..))
_calculate_risk_percentage_unclamped(part1_score, has_co_occurrence, functional_impact_level) ==
    LET score_risk_num == Min(part1_score * 60, 60 * 13)
        co_occurrence_risk == IF has_co_occurrence THEN 20 ELSE 0
        functional == Get(functional_risk, functional_impact_level, 0)
        bonus == IF part1_score >= 9 /\ has_co_occurrence
                    /\ functional_impact_level # "no_problems"
                 THEN 15 ELSE 0
        total_num == score_risk_num
                     + 13 * (co_occurrence_risk + functional + bonus)
    IN  IF total_num >= 0 THEN RoundDiv(10 * total_num, 13)
        ELSE -RoundDiv(-10 * total_num, 13)

\* _calculate_risk_percentage with the bonus given from 10 up (> 9) instead of
\* from 9 up
_calculate_risk_percentage_bonus_above_9(part1_score, has_co_occurrence, functional_impact_level) ==
    LET score_risk_num == Min(part1_score * 60, 60 * 13)
        co_occurrence_risk == IF has_co_occurrence THEN 20 ELSE 0
        functional == Get(functional_risk, functional_impact_level, 0)
        bonus == IF part1_score > 9 /\ has_co_occurrence
                    /\ functional_impact_level # "no_problems"
                 THEN 15 ELSE 0
        total_num == score_risk_num
                     + 13 * (co_occurrence_risk + functional + bonus)
        clamped_num == Min(100 * 13, Max(0, total_num))
    IN  RoundDiv(10 * clamped_num, 13)

\* analyse.py MDQAnalyzer._calculate_risk_percentage, in tenths of a percent:
\* total_risk = min(part1_score / 13.0 * 60, 60) + 20 + functional (+ 15) is
\* kept as the fraction total_num / 13 until the final round(.., 1)
_calculate_risk_percentage(part1_score, has_co_occurrence, functional_impact_level) ==
    LET score_risk_num == Min(part1_score * 60, 60 * 13)
        co_occurrence_risk == IF has_co_occurrence THEN 20 ELSE 0
        functional == Get(functional_risk, functional_impact_level, 0)
        bonus == IF part1_score >= 9 /\ has_co_occurrence
                    /\ functional_impact_level # "no_problems"
                 THEN 15 ELSE 0
        total_num == score_risk_num
                     + 13 * (co_occurrence_risk + functional + bonus)
        clamped_num == Min(100 * 13, Max(0, total_num))
    IN  RoundDiv(10 * clamped_num, 13)

\* database.py DatabaseManager._calculate_risk_percentage_standard, in tenths
_calculate_risk_percentage_standard(mdq_score, has_co_occurrence, functional_impact_level) ==
    LET score_risk_num == Min(mdq_score * 60, 60 * 13)
        co_occurrence_risk == IF has_co_occurrence THEN 20 ELSE 0
        functional == Get(functional_risk, functional_impact_level, 0)
        bonus == IF mdq_score >= 9 /\ has_co_occurrence
                    /\ functional_impact_level # "no_problems"
                 THEN 15 ELSE 0
        total_num == score_risk_num
                     + 13 * (co_occurrence_risk + functional + bonus)
        clamped_num == Min(100 * 13, Max(0, total_num))
    IN  RoundDiv(10 * clamped_num, 13)

-----------------------------------------------------------------------------
(* Binary scheme: scoring entry points *)

RECURSIVE Part1Loop_only_yes(_, _)
\* the scoring loop counting the answer 'yes' alone
Part1Loop_only_yes(questions, i) ==
    IF i > NumQuestions THEN 0
    ELSE (IF Get(questions, QIdSeq[i], "no") = "yes" THEN 1 ELSE 0)
         + Part1Loop_only_yes(questions, i + 1)

RECURSIVE Part1Loop(_, _)
\* the loop "for q_id in [f'q{i}' for i in range(1, 14)]" of
\* MDQAnalyzer._analyze_mdq_standard from position i on: answer = 'no' scores 0,
\* any other answer scores 1; a missing question reads as 'no'
Part1Loop(questions, i) ==
    IF i > NumQuestions THEN 0
    ELSE (IF Get(questions, QIdSeq[i], "no") = "no" THEN 0 ELSE 1)
         + Part1Loop(questions, i + 1)

RECURSIVE Part1LoopStandard(_, _)
\* the same loop in DatabaseManager._calculate_mdq_score_standard and
\* DatabaseManager._analyze_current_state_standard: "if answer != 'no'"
Part1LoopStandard(questions, i) ==
    IF i > NumQuestions THEN 0
    ELSE (IF Get(questions, QIdSeq[i], "no") # "no" THEN 1 ELSE 0)
         + Part1LoopStandard(questions, i + 1)

\* symptom_profile[q_id] as the scoring loops fill it
SymptomProfile(questions) ==
    [q \in QIds |-> Get(questions, q, "no") # "no"]

\* sum(1 for q_id in self.core_symptoms if symptom_profile.get(q_id, False))
CoreSymptomsCount(symptom_profile) ==
    Cardinality({i \in 1..Len(core_symptoms) :
                    Get(symptom_profile, core_symptoms[i], FALSE)})

\* analyse.py MDQAnalyzer._analyze_mdq_standard (positive_symptoms, a list of
\* display texts of the questions whose profile entry is true, is left out)
_analyze_mdq_standard(td) ==
    LET questions == Get(td, "questions", [q \in {} |-> "no"])
        part1_score == Part1Loop(questions, 1)
        symptom_profile == SymptomProfile(questions)
        has_co_occurrence == Get(td, "co_occurrence", "no") = "yes"
        severity == Get(td, "severity", "no")
        functional_impact_level ==
            Get(functional_impact_mapping, severity, "no_problems")
        mdq_result == _determine_mdq_result(
            part1_score, has_co_occurrence, functional_impact_level)
    IN  [part1_score |-> part1_score,
         has_co_occurrence |-> has_co_occurrence,
         functional_impact_level |-> functional_impact_level,
         mdq_result |-> mdq_result,
         severity_level |-> _determine_severity_level(
             part1_score, has_co_occurrence, functional_impact_level, mdq_result),
         risk_percentage |-> _calculate_risk_percentage(
             part1_score, has_co_occurrence, functional_impact_level),
         symptom_profile |-> symptom_profile,
         core_symptoms_count |-> CoreSymptomsCount(symptom_profile)]

\* database.py DatabaseManager._calculate_mdq_score_standard (the interpretation
\* text is left out)
_calculate_mdq_score_standard(td) ==
    LET questions == Get(td, "questions", [q \in {} |-> "no"])
        mdq_score == Part1LoopStandard(questions, 1)
        has_co_occurrence == Get(td, "co_occurrence", "no") = "yes"
        severity == Get(td, "severity", "no")
        functional_impact_level ==
            Get(functional_impact_mapping, severity, "no_problems")
        mdq_result == _determine_mdq_result_standard(
            mdq_score, has_co_occurrence, functional_impact_level)
    IN  [mdq_score |-> mdq_score,
         has_co_occurrence |-> has_co_occurrence,
         functional_impact_level |-> functional_impact_level,
         mdq_result |-> mdq_result,
         severity_level |-> _determine_severity_level_standard(
             mdq_score, has_co_occurrence, functional_impact_level, mdq_result),
         risk_percentage |-> _calculate_risk_percentage_standard(
             mdq_score, has_co_occurrence, functional_impact_level)]

\* database.py DatabaseManager._analyze_current_state_standard
_analyze_current_state_standard(td) ==
    LET questions == Get(td, "questions", [q \in {} |-> "no"])
        mdq_score == Part1LoopStandard(questions, 1)
        symptom_profile == SymptomProfile(questions)
        has_co_occurrence == Get(td, "co_occurrence", "no") = "yes"
        severity == Get(td, "severity", "no")
        functional_impact_level ==
            Get(functional_impact_mapping, severity, "no_problems")
        mdq_result == _determine_mdq_result_standard(
            mdq_score, has_co_occurrence, functional_impact_level)
    IN  [mdq_part1_score |-> mdq_score,
         has_co_occurrence |-> has_co_occurrence,
         functional_impact_level |-> functional_impact_level,
         mdq_result |-> mdq_result,
         severity_level |-> _determine_severity_level_standard(
             mdq_score, has_co_occurrence, functional_impact_level, mdq_result),
         risk_percentage |-> _calculate_risk_percentage_standard(
             mdq_score, has_co_occurrence, functional_impact_level),
         symptom_profile |-> symptom_profile,
         core_symptoms_count |-> CoreSymptomsCount(symptom_profile)]

-----------------------------------------------------------------------------
(* FiveLevel scheme: tables of the MDQAnalyzer of unnamed/part_000 and of the  *)
(* DatabaseManager at the end of app.py                                         *)

\* list(SeverityLevel) of the FiveLevel modules, least severe first
SeverityLevelFive ==
    <<"normal", "mild_risk", "moderate_risk", "high_risk", "severe_risk">>

score_mapping == [no |-> 0, rarely |-> 1, sometimes |-> 2, often |-> 3, always |-> 4]

\* MDQAnalyzer.severity_thresholds (unnamed/part_000), in dictionary order
severity_thresholds ==
    << [level |-> "normal",        min_score |-> 0,  max_score |-> 12],
       [level |-> "mild_risk",     min_score |-> 13, max_score |-> 25],
       [level |-> "moderate_risk", min_score |-> 26, max_score |-> 39],
       [level |-> "high_risk",     min_score |-> 16, max_score |-> 39],
       [level |-> "severe_risk",   min_score |-> 40, max_score |-> 52] >>

\* DatabaseManager.severity_thresholds (app.py), in dictionary order
DatabaseManager_severity_thresholds ==
    << [level |-> "normal",        min_score |-> 0,  max_score |-> 3],
       [level |-> "mild_risk",     min_score |-> 4,  max_score |-> 8],
       [level |-> "moderate_risk", min_score |-> 9,  max_score |-> 15],
       [level |-> "high_risk",     min_score |-> 16, max_score |-> 25],
       [level |-> "severe_risk",   min_score |-> 26, max_score |-> 39] >>

\* symptom_weights, in tenths (1.2 is 12)
symptom_weights ==
    [q1 |-> 12, q2 |-> 11, q3 |-> 15, q4 |-> 10, q5 |-> 18, q6 |-> 12, q7 |-> 11,
     q8 |-> 14, q9 |-> 16, q10 |-> 19, q11 |-> 17, q12 |-> 20, q13 |-> 18]

\* max(self.symptom_weights.values()), in tenths
MaxSymptomWeight ==
    CHOOSE w \in {symptom_weights[q] : q \in DOMAIN symptom_weights} :
        \A q \in DOMAIN symptom_weights : symptom_weights[q] <= w

\* the indicator groups, in dictionary order
bipolar_indicators ==
    [core_manic_symptoms |-> <<"q1", "q2", "q3", "q5">>,
     behavioral_symptoms |-> <<"q8", "q9", "q10", "q11">>,
     social_impact       |-> <<"q12", "q13">>,
     cognitive_symptoms  |-> <<"q5", "q6">>]

-----------------------------------------------------------------------------
(* FiveLevel scheme: severity, risk and impairment *)

RECURSIVE BaseLevelFrom(_, _, _)
\* the first-match loop over the threshold table from entry i on; base_level
\* stays NORMAL when no range holds raw_score
BaseLevelFrom(thresholds, raw_score, i) ==
    IF i > Len(thresholds) THEN "normal"
    ELSE IF thresholds[i].min_score <= raw_score /\ raw_score <= thresholds[i].max_score
         THEN thresholds[i].level
    ELSE BaseLevelFrom(thresholds, raw_score, i + 1)

\* severity_levels.index(level), counted from 1
LevelIndex(level) ==
    CHOOSE i \in 1..Len(SeverityLevelFive) : SeverityLevelFive[i] = level

\* the severity_boost with the two indicator tests in the opposite order: the
\* >= 2 test is met first and three or four indicators add 1 only
SeverityBoost_tests_swapped(indicators, td) ==
    LET positive_indicators == SumOver(DOMAIN indicators, indicators)
        severity == Get(td, "severity", "no")
        high_risk_count ==
            Cardinality({cat \in {"core_manic_symptoms", "behavioral_symptoms"} :
                            Get(indicators, cat, 0) # 0})
    IN  (IF positive_indicators >= 2 THEN 1
         ELSE IF positive_indicators >= 3 THEN 2 ELSE 0)
        + (IF severity = "serious" THEN 2
           ELSE IF severity = "moderate" THEN 1 ELSE 0)
        + (IF Get(td, "co_occurrence", None) = "yes" THEN 1 ELSE 0)
        + (IF high_risk_count >= 2 THEN 1 ELSE 0)

\* the severity_boost accumulated by _calculate_severity_level
SeverityBoost(indicators, td) ==
    LET positive_indicators == SumOver(DOMAIN indicators, indicators)
        severity == Get(td, "severity", "no")
        high_risk_count ==
            Cardinality({cat \in {"core_manic_symptoms", "behavioral_symptoms"} :
                            Get(indicators, cat, 0) # 0})
    IN  (IF positive_indicators >= 3 THEN 2
         ELSE IF positive_indicators >= 2 THEN 1 ELSE 0)
        + (IF severity = "serious" THEN 2
           ELSE IF severity = "moderate" THEN 1 ELSE 0)
        + (IF Get(td, "co_occurrence", None) = "yes" THEN 1 ELSE 0)
        + (IF high_risk_count >= 2 THEN 1 ELSE 0)

\* _calculate_severity_level with the cap one level short of the last
_calculate_severity_level_cap_short(thresholds, raw_score, indicators, td) ==
    LET base_level == BaseLevelFrom(thresholds, raw_score, 1)
        base_index == LevelIndex(base_level)
        adjusted_index ==
            Min(Len(SeverityLevelFive) - 1,
                base_index + SeverityBoost(indicators, td))
    IN  SeverityLevelFive[adjusted_index]

\* _calculate_severity_level of both FiveLevel modules (the code is the same,
\* the table self.severity_thresholds differs); weighted_score is not used
_calculate_severity_level(thresholds, raw_score, indicators, td) ==
    LET base_level == BaseLevelFrom(thresholds, raw_score, 1)
        base_index == LevelIndex(base_level)
        adjusted_index ==
            Min(Len(SeverityLevelFive), base_index + SeverityBoost(indicators, td))
    IN  SeverityLevelFive[adjusted_index]

\* the FiveLevel risk without the min(100, ..) on base_risk
_calculate_risk_percentage_five_base_uncapped(raw_score, weighted_score, indicators, td) ==
    LET m == MaxSymptomWeight
        severity == Get(td, "severity", "no")
        clinical_adjustments ==
            (IF Get(td, "co_occurrence", None) = "yes" THEN 15 ELSE 0)
            + (IF severity = "serious" THEN 25
               ELSE IF severity = "moderate" THEN 15
               ELSE IF severity = "minor" THEN 5 ELSE 0)
            + SumOver(DOMAIN indicators, indicators) * 8
        num == 4 * m * 100 * raw_score
               + 400 * weighted_score
               + 2 * clinical_adjustments * 39 * m
        clamped == Min(1000 * 39 * m, Max(0, num))
    IN  RoundDiv(clamped, 39 * m)

\* MDQAnalyzer._calculate_risk_percentage (unnamed/part_000), in tenths of a
\* percent; weighted_score is in tenths.  With m = max weight (tenths),
\*   final_risk = 0.4 * min(100, raw/39*100) + 0.4 * weighted/(39*m)*100
\*                + 0.2 * clinical_adjustments
\* is kept as the fraction num / (39 * m) of tenths until the final round
_calculate_risk_percentage_five(raw_score, weighted_score, indicators, td) ==
    LET m == MaxSymptomWeight
        severity == Get(td, "severity", "no")
        clinical_adjustments ==
            (IF Get(td, "co_occurrence", None) = "yes" THEN 15 ELSE 0)
            + (IF severity = "serious" THEN 25
               ELSE IF severity = "moderate" THEN 15
               ELSE IF severity = "minor" THEN 5 ELSE 0)
            + SumOver(DOMAIN indicators, indicators) * 8
        num == 4 * m * Min(100 * 39, 100 * raw_score)
               + 400 * weighted_score
               + 2 * clinical_adjustments * 39 * m
        clamped == Min(1000 * 39 * m, Max(0, num))
    IN  RoundDiv(clamped, 39 * m)

\* MDQAnalyzer._assess_functional_impairment (unnamed/part_000)
_assess_functional_impairment(td, indicators, symptom_scores) ==
    LET severity == Get(td, "severity", "no")
        co_occurrence == Get(td, "co_occurrence", "no")
        impairment_score == Get(symptom_scores, "q12", 0)
        others_noticed_score == Get(symptom_scores, "q13", 0)
        behavioral_symptoms == Get(indicators, "behavioral_symptoms", 0) # 0
        social_impact == Get(indicators, "social_impact", 0) # 0
    IN  IF (severity = "serious" /\ co_occurrence = "yes") \/ impairment_score >= 3
        THEN "severe"
        ELSE IF severity = "serious"
                \/ (severity = "moderate" /\ behavioral_symptoms)
                \/ impairment_score >= 2
        THEN "moderate"
        ELSE IF severity = "moderate" \/ social_impact
                \/ others_noticed_score >= 2 \/ impairment_score >= 1
        THEN "mild"
        ELSE "minimal"

-----------------------------------------------------------------------------
(* FiveLevel scheme: scoring entry points *)

\* symptom_scores with an unlisted label scored 1: score_mapping.get(answer, 1)
SymptomScores_unknown_as_one(questions) ==
    [q \in DOMAIN questions |-> Get(score_mapping, questions[q], 1)]

\* symptom_scores as the loop "for q_id, answer in questions.items()" fills it:
\* one entry per key of the questions map, whatever the key
SymptomScores(questions) ==
    [q \in DOMAIN questions |-> Get(score_mapping, questions[q], 0)]

\* weighted_score, in tenths: sum(symptom_scores[q] * symptom_weights.get(q, 1))
WeightedScore(symptom_scores) ==
    SumOver(DOMAIN symptom_scores,
            [q \in DOMAIN symptom_scores |->
                symptom_scores[q] * Get(symptom_weights, q, 10)])

\* sum of [symptom_scores.get(q_id, 0) for q_id in q_ids]
IndicatorScoreSum(symptom_scores, q_ids) ==
    SumOver(1..Len(q_ids), [i \in 1..Len(q_ids) |-> Get(symptom_scores, q_ids[i], 0)])

\* the computed bipolar_indicators dictionary: 1 when np.mean of the group's
\* scores is >= threshold (3.0 in unnamed/part_000, 2.0 in app.py), else 0
BipolarIndicatorFlags(symptom_scores, threshold) ==
    [indicator \in DOMAIN bipolar_indicators |->
        IF IndicatorScoreSum(symptom_scores, bipolar_indicators[indicator])
              >= threshold * Len(bipolar_indicators[indicator])
        THEN 1 ELSE 0]

\* MDQAnalyzer._analyze_current_state (unnamed/part_000); the per-category
\* statistics and the positive_symptoms texts are left out
_analyze_current_state(td) ==
    LET questions == Get(td, "questions", [q \in {} |-> "no"])
        symptom_scores == SymptomScores(questions)
        raw_score == SumOver(DOMAIN symptom_scores, symptom_scores)
        weighted_score == WeightedScore(symptom_scores)
        indicators == BipolarIndicatorFlags(symptom_scores, 3)
    IN  [raw_score |-> raw_score,
         normalized_score |-> Min(13, RoundDiv(raw_score, 5)),
         weighted_score |-> weighted_score,
         severity_level |-> _calculate_severity_level(
             severity_thresholds, raw_score, indicators, td),
         risk_percentage |-> _calculate_risk_percentage_five(
             raw_score, weighted_score, indicators, td),
         bipolar_indicators |-> indicators,
         impairment_level |-> _assess_functional_impairment(
             td, indicators, symptom_scores),
         symptom_scores |-> symptom_scores]

\* DatabaseManager._analyze_current_state (app.py)
DatabaseManager_analyze_current_state(td) ==
    LET questions == Get(td, "questions", [q \in {} |-> "no"])
        symptom_scores == SymptomScores(questions)
        raw_score == SumOver(DOMAIN symptom_scores, symptom_scores)
        indicators == BipolarIndicatorFlags(symptom_scores, 2)
    IN  [raw_score |-> raw_score,
         normalized_score |-> Min(13, RoundDiv(raw_score, 3)),
         weighted_score |-> WeightedScore(symptom_scores),
         severity_level |-> _calculate_severity_level(
             DatabaseManager_severity_thresholds, raw_score, indicators, td),
         bipolar_indicators |-> indicators,
         symptom_scores |-> symptom_scores]

-----------------------------------------------------------------------------
(* The questionnaires explored *)

\* answer labels: the two of the Binary form, the five of the FiveLevel form,
\* and one label no scheme lists
BinaryLabels == {"yes", "no"}

FiveLevelLabels == {"no", "rarely", "sometimes", "often", "always"}

Labels == BinaryLabels \cup FiveLevelLabels \cup {"maybe"}

\* a question left unanswered: its key is missing from the map
Absent == "<absent>"

\* the map holding exactly the answered keys of f
Answered(f) == [q \in {k \in DOMAIN f : f[k] # Absent} |-> f[q]]

\* q1..qk answered a, the other questions b, every extra key e
PrefixMaps ==
    {Answered([q \in QIds \cup ExtraKeys |->
                  IF q \in ExtraKeys THEN e
                  ELSE IF q \in {QIdSeq[i] : i \in 1..k} THEN a ELSE b]) :
        k \in 0..NumQuestions, a \in Labels \cup {Absent},
        b \in Labels \cup {Absent}, e \in {Absent, "always", "no"}}

\* the questions grouped by the indicator groups they belong to
QuestionGroups ==
    << {"q1", "q2", "q3"}, {"q5"}, {"q6"}, {"q8", "q9", "q10", "q11"},
       {"q12", "q13"}, {"q4", "q7"} >>

\* one label per group of questions
GroupMaps ==
    {[q \in QIds |->
         g[CHOOSE i \in 1..Len(QuestionGroups) : q \in QuestionGroups[i]]] :
        g \in [1..Len(QuestionGroups) -> {"no", "often", "always"}]}

QuestionMaps == PrefixMaps \cup GroupMaps

\* test_data with the co_occurrence and severity keys present or missing
TestData(questions, co, sev) ==
    LET keys == {"questions"}
                \cup (IF co = Absent THEN {} ELSE {"co_occurrence"})
                \cup (IF sev = Absent THEN {} ELSE {"severity"})
    IN  [k \in keys |->
            IF k = "questions" THEN questions
            ELSE IF k = "co_occurrence" THEN co ELSE sev]

-----------------------------------------------------------------------------
(* State machine *)

Init ==
    /\ \E questions \in QuestionMaps,
          co \in {"yes", "no", Absent},
          sev \in {"no", "minor", "moderate", "serious", "maybe", Absent} :
            test_data = TestData(questions, co, sev)
    /\ test_history = <<>>
    /\ detail_loads = TRUE
    /\ op = "none"
    /\ result = [none |-> TRUE]
    /\ NoArgs /\ NoStore /\ NoAccounts /\ NoProgress

\* analyse.py: MDQAnalyzer._analyze_mdq_standard(test_detail)
AnalyzeMdqStandard ==
    /\ op = "none"
    /\ op' = "_analyze_mdq_standard"
    /\ result' = _analyze_mdq_standard(test_data)
    /\ UNCHANGED <<inputs, store, accounts, progress>>

\* database.py: DatabaseManager._calculate_mdq_score_standard(test_data)
CalculateMdqScoreStandard ==
    /\ op = "none"
    /\ op' = "_calculate_mdq_score_standard"
    /\ result' = _calculate_mdq_score_standard(test_data)
    /\ UNCHANGED <<inputs, store, accounts, progress>>

\* database.py: DatabaseManager._analyze_current_state_standard(test_data)
AnalyzeCurrentStateStandard ==
    /\ op = "none"
    /\ op' = "_analyze_current_state_standard"
    /\ result' = _analyze_current_state_standard(test_data)
    /\ UNCHANGED <<inputs, store, accounts, progress>>

\* unnamed/part_000: MDQAnalyzer._analyze_current_state(test_detail)
AnalyzeCurrentState ==
    /\ op = "none"
    /\ op' = "_analyze_current_state"
    /\ result' = _analyze_current_state(test_data)
    /\ UNCHANGED <<inputs, store, accounts, progress>>

\* app.py: DatabaseManager._analyze_current_state(test_detail)
DatabaseManagerAnalyzeCurrentState ==
    /\ op = "none"
    /\ op' = "DatabaseManager._analyze_current_state"
    /\ result' = DatabaseManager_analyze_current_state(test_data)
    /\ UNCHANGED <<inputs, store, accounts, progress>>

Next ==
    \/ AnalyzeMdqStandard
    \/ CalculateMdqScoreStandard
    \/ AnalyzeCurrentStateStandard
    \/ AnalyzeCurrentState
    \/ DatabaseManagerAnalyzeCurrentState

Spec == Init /\ [][Next]_vars

-----------------------------------------------------------------------------
(* Vocabulary of the properties: the questionnaire as the claims describe it *)

BinaryOps ==
    {"_analyze_mdq_standard", "_calculate_mdq_score_standard",
     "_analyze_current_state_standard"}

FiveLevelOps == {"_analyze_current_state", "DatabaseManager._analyze_current_state"}

\* the part-1 total a Binary entry point returned
BinaryTotal ==
    IF op = "_analyze_mdq_standard" THEN result.part1_score
    ELSE IF op = "_calculate_mdq_score_standard" THEN result.mdq_score
    ELSE result.mdq_part1_score

\* the answers of the questionnaire
Answers == test_data["questions"]

\* the co_occurrence flag of the questionnaire
CoOccurrence ==
    "co_occurrence" \in DOMAIN test_data /\ test_data["co_occurrence"] = "yes"

\* the functional impact of the questionnaire: none, minor, moderate or serious
Impact ==
    IF "severity" \in DOMAIN test_data
          /\ test_data["severity"] \in {"minor", "moderate", "serious"}
    THEN test_data["severity"] ELSE "none"

\* q1..qk answered a and the other questions b, nothing else in the map
IsPrefixAnswers(k, a, b) ==
    /\ DOMAIN Answers = QIds
    /\ \A i \in 1..NumQuestions : Answers[QIdSeq[i]] = (IF i <= k THEN a ELSE b)

-----------------------------------------------------------------------------
(* C1 *)

\* C1: the Binary result decision. For every part-1 total, co_occurrence flag
\* and impact level the result is negative below 7 or without co-occurrence,
\* else positive_subclinical / positive_mild / positive_moderate / positive_high
\* for impact none / minor / moderate / serious; scenario A (q1..q7 yes, the rest
\* no, co-occurrence, moderate impact) gives positive_moderate.
C1_ResultDecision ==
    op \in BinaryOps =>
        /\ result.mdq_result =
              (IF BinaryTotal < 7 THEN "negative"
               ELSE IF ~CoOccurrence THEN "negative"
               ELSE CASE Impact = "none" -> "positive_subclinical"
                      [] Impact = "minor" -> "positive_mild"
                      [] Impact = "moderate" -> "positive_moderate"
                      [] Impact = "serious" -> "positive_high")
        /\ (IsPrefixAnswers(7, "yes", "no") /\ CoOccurrence /\ Impact = "moderate")
              => result.mdq_result = "positive_moderate"

\* scenario A has been scored by the analyzer
C1_Witness ==
    /\ op = "_analyze_mdq_standard"
    /\ IsPrefixAnswers(7, "yes", "no") /\ CoOccurrence /\ Impact = "moderate"
    /\ result.part1_score = 7
    /\ result.mdq_result = "positive_moderate"

-----------------------------------------------------------------------------
(* C2 *)

\* the severity the claim assigns to a result category
C2_LevelOf(mdq_result) ==
    CASE mdq_result = "negative" -> "negative"
      [] mdq_result \in {"positive_subclinical", "positive_mild"} -> "mild_positive"
      [] mdq_result = "positive_moderate" -> "moderate_positive"
      [] mdq_result = "positive_high" -> "high_positive"
      [] OTHER -> "score-based fallback"

-----------------------------------------------------------------------------
(* C3 *)

\* the questions among q1..q13 answered with something other than 'no'
C3_Positive == {q \in QIds : q \in DOMAIN Answers /\ Answers[q] # "no"}

\* C3: Binary scoring. The part-1 score is the number of questions among
\* q1..q13 whose answer is present and different from 'no'; symptom_profile is
\* true exactly for them, core_symptoms_count counts them among q1..q7, and
\* keys other than q1..q13 do not affect the score.
C3_BinaryCount ==
    op \in BinaryOps =>
        /\ BinaryTotal = Cardinality(C3_Positive)
        /\ op # "_calculate_mdq_score_standard" =>
              /\ DOMAIN result.symptom_profile = QIds
              /\ \A q \in QIds : result.symptom_profile[q] <=> q \in C3_Positive
              /\ result.core_symptoms_count =
                    Cardinality(C3_Positive \cap {QIdSeq[i] : i \in 1..7})

\* a map with an extra key, unanswered questions and some positive answers
C3_Witness ==
    /\ op = "_analyze_mdq_standard"
    /\ ExtraKeys \cap DOMAIN Answers # {}
    /\ QIds \ DOMAIN Answers # {}
    /\ result.part1_score = 9
    /\ result.core_symptoms_count = 7

-----------------------------------------------------------------------------
(* C4 *)

\* the raw total a FiveLevel entry point returned, less what keys other than
\* q1..q13 added to it
C4_FiveLevelTotalOfQuestions ==
    result.raw_score
    - SumOver(DOMAIN Answers \ QIds,
              [q \in DOMAIN Answers \ QIds |-> result.symptom_scores[q]])

\* what question q adds to the total when only the labels in recognised count,
\* no as 0 and binary_one as 1 under Binary, by score_mapping under FiveLevel
C4_Contribution(q, recognised, binary) ==
    IF q \notin DOMAIN Answers \/ Answers[q] \notin recognised THEN 0
    ELSE IF binary THEN (IF Answers[q] = "no" THEN 0 ELSE 1)
    ELSE score_mapping[Answers[q]]

C4_Sum(recognised, binary) ==
    SumOver(QIds, [q \in QIds |-> C4_Contribution(q, recognised, binary)])

\* C4 as stated: under either scheme a question among q1..q13 that is
\* unanswered, or whose label is not one the scheme recognises, adds 0 to the
\* total (the Binary form is granted every label either form offers).
C4_MalformedCountsZero ==
    /\ op \in BinaryOps =>
          BinaryTotal = C4_Sum(BinaryLabels \cup FiveLevelLabels, TRUE)
    /\ op \in FiveLevelOps =>
          C4_FiveLevelTotalOfQuestions = C4_Sum(FiveLevelLabels, FALSE)

\* C4 as amended: an unanswered question among q1..q13 adds 0 under either
\* scheme; a label the scheme does not list adds 0 under FiveLevel, but under
\* Binary every label other than 'no', listed or not, adds 1.
C4_MalformedAmended ==
    /\ op \in BinaryOps => BinaryTotal = C4_Sum(Labels, TRUE)
    /\ op \in FiveLevelOps =>
          C4_FiveLevelTotalOfQuestions = C4_Sum(FiveLevelLabels, FALSE)
    /\ op \in BinaryOps \cup FiveLevelOps =>
          \A q \in QIds \ DOMAIN Answers :
              C4_Contribution(q, Labels, op \in BinaryOps) = 0

\* questions left unanswered and unlisted labels, scored under FiveLevel
C4_Witness ==
    /\ op = "_analyze_current_state"
    /\ \E k \in 1..(NumQuestions - 1) :
          /\ \A i \in 1..k : QIdSeq[i] \in DOMAIN Answers /\ Answers[QIdSeq[i]] = "maybe"
          /\ \A i \in (k + 1)..NumQuestions : QIdSeq[i] \notin DOMAIN Answers
    /\ result.raw_score = 0

-----------------------------------------------------------------------------
(* C5 *)

\* C5: score bounds. For every answer map, keys other than q1..q13 included,
\* 0 <= total <= 13 under Binary and 0 <= total <= 52 under FiveLevel.
C5_ScoreBounds ==
    /\ op \in BinaryOps => 0 <= BinaryTotal /\ BinaryTotal <= 13
    /\ op \in FiveLevelOps => 0 <= result.raw_score /\ result.raw_score <= 52

-----------------------------------------------------------------------------
(* C6 *)

\* the risk of the claim before clamping and rounding, times 13:
\* min(60, total/13*60) + 20 if co_occurrence + 0/5/15/25 by impact
\* + 15 if total >= 9 with co_occurrence and an impact
C6_RiskTimes13 ==
    Min(60 * 13, BinaryTotal * 60)
    + 13 * (IF CoOccurrence THEN 20 ELSE 0)
    + 13 * (CASE Impact = "none" -> 0 [] Impact = "minor" -> 5
              [] Impact = "moderate" -> 15 [] Impact = "serious" -> 25)
    + 13 * (IF BinaryTotal >= 9 /\ CoOccurrence /\ Impact # "none" THEN 15 ELSE 0)

\* C6: Binary risk_percentage is the claim's sum clamped to [0, 100] and
\* rounded to one decimal (the returned tenth is the nearest one), and an answer
\* set with every answer 'no' has risk 0.
C6_BinaryRisk ==
    op \in BinaryOps =>
        LET clamped13 == Min(100 * 13, Max(0, C6_RiskTimes13))
            diff == 13 * result.risk_percentage - 10 * clamped13
        IN  /\ 2 * diff <= 13 /\ 2 * diff >= -13
            /\ result.risk_percentage \in 0..1000
            /\ IsPrefixAnswers(NumQuestions, "no", "no") /\ ~CoOccurrence
                  /\ Impact = "none"
                  => result.risk_percentage = 0

\* the high-risk bonus applies and the sum (120) is clamped to 100
C6_Witness ==
    /\ op = "_calculate_mdq_score_standard"
    /\ result.mdq_score = 13 /\ CoOccurrence /\ Impact = "serious"
    /\ result.risk_percentage = 1000

-----------------------------------------------------------------------------
(* C7 *)

\* the threshold table the entry point that ran reads
C7_Table ==
    IF op = "_analyze_current_state" THEN severity_thresholds
    ELSE DatabaseManager_severity_thresholds

\* the table in the opposite iteration order
C7_Reversed(table) == [i \in 1..Len(table) |-> table[Len(table) + 1 - i]]

\* the entries of the table whose range holds the total
C7_Matching(table, total) ==
    {i \in 1..Len(table) :
        table[i].min_score <= total /\ total <= table[i].max_score}

\* C7: in the FiveLevel threshold table the ranges do not overlap and every
\* total in 0..52 lies in exactly one of them (no scored total lies in two
\* ranges or in none), so the base level of the first-match loop is that
\* range's level whatever the iteration order.
C7_UniqueRange ==
    (op \in FiveLevelOps /\ result.raw_score \in 0..52) =>
        /\ Cardinality(C7_Matching(C7_Table, result.raw_score)) = 1
        /\ BaseLevelFrom(C7_Table, result.raw_score, 1)
              = BaseLevelFrom(C7_Reversed(C7_Table), result.raw_score, 1)

-----------------------------------------------------------------------------
(* C8 *)

\* the number of indicators that are true
C8_Count(indicators) ==
    Cardinality({g \in DOMAIN indicators : indicators[g] # 0})

\* the boost of the claim: 2 for at least 3 indicators, 1 for exactly 2; 2 for
\* serious impact, 1 for moderate; 1 for co_occurrence; 1 when both the
\* core-manic and the behavioral indicator are true
C8_Boost(indicators) ==
    (IF C8_Count(indicators) >= 3 THEN 2
     ELSE IF C8_Count(indicators) = 2 THEN 1 ELSE 0)
    + (CASE Impact = "serious" -> 2 [] Impact = "moderate" -> 1 [] OTHER -> 0)
    + (IF CoOccurrence THEN 1 ELSE 0)
    + (IF indicators["core_manic_symptoms"] # 0
          /\ indicators["behavioral_symptoms"] # 0 THEN 1 ELSE 0)

\* C8: the FiveLevel final level is levels[min(4, index(base) + boost)] over
\* NORMAL < MILD_RISK < MODERATE_RISK < HIGH_RISK < SEVERE_RISK (indices here
\* count from 1, so the cap is 5); it is never below the base level and never
\* beyond SEVERE_RISK.
C8_FinalLevel ==
    op \in FiveLevelOps =>
        LET base == LevelIndex(BaseLevelFrom(C7_Table, result.raw_score, 1))
            final == LevelIndex(result.severity_level)
        IN  /\ result.severity_level \in
                  {SeverityLevelFive[i] : i \in 1..Len(SeverityLevelFive)}
            /\ final = Min(5, base + C8_Boost(result.bipolar_indicators))
            /\ final >= base
            /\ final <= 5

\* a boost of 7 on a MILD_RISK base, capped at SEVERE_RISK
C8_Witness ==
    /\ op = "_analyze_current_state"
    /\ BaseLevelFrom(severity_thresholds, result.raw_score, 1) = "mild_risk"
    /\ C8_Boost(result.bipolar_indicators) >= 5
    /\ result.severity_level = "severe_risk"

\* a boost that is not capped
C8_WitnessUncapped ==
    /\ op = "_analyze_current_state"
    /\ BaseLevelFrom(severity_thresholds, result.raw_score, 1) = "normal"
    /\ C8_Boost(result.bipolar_indicators) = 2
    /\ result.severity_level = "moderate_risk"

-----------------------------------------------------------------------------
(* C9 *)

\* every assignment of the four bipolar indicators
C9_Assignments == [DOMAIN bipolar_indicators -> {0, 1}]

\* C9: with the total, the impact and co_occurrence held fixed, an assignment
\* of the four indicators with more indicators true never yields a less severe
\* final level than an assignment with fewer true.  outcomes pairs the number
\* of true indicators of every assignment with the final level it yields.
C9_BoostMonotone ==
    op = "_analyze_current_state" =>
        LET outcomes ==
                {<<C8_Count(ind),
                   LevelIndex(_calculate_severity_level(
                       severity_thresholds, result.raw_score, ind, test_data))>> :
                    ind \in C9_Assignments}
        IN  \A fewer, more \in outcomes :
                fewer[1] < more[1] => fewer[2] <= more[2]

\* a questionnaire whose level the indicators can still raise: NORMAL as
\* scored with one indicator true, HIGH_RISK were all four true
C9_Witness ==
    /\ op = "_analyze_current_state"
    /\ C8_Count(result.bipolar_indicators) = 1
    /\ result.severity_level = "normal"
    /\ _calculate_severity_level(
           severity_thresholds, result.raw_score,
           [g \in DOMAIN bipolar_indicators |-> 1], test_data) = "high_risk"

-----------------------------------------------------------------------------
(* C10 *)

\* C10 as stated (scenario C): all 13 answers 'always' give total 52,
\* SEVERE_RISK and risk_percentage 100.
C10_ScenarioC ==
    (op = "_analyze_current_state" /\ IsPrefixAnswers(NumQuestions, "always", "always")) =>
        /\ result.raw_score = 52
        /\ result.severity_level = "severe_risk"
        /\ result.risk_percentage = 1000

\* C10 as amended: all 13 answers 'always' give total 52 and SEVERE_RISK; the
\* risk_percentage is 86.0 plus 3.0 for co_occurrence plus 1.0 / 3.0 / 5.0 for
\* minor / moderate / serious impact, so between 86.0 and 94.0 and never 100.
C10_ScenarioCAmended ==
    (op = "_analyze_current_state" /\ IsPrefixAnswers(NumQuestions, "always", "always")) =>
        /\ result.raw_score = 52
        /\ result.severity_level = "severe_risk"
        /\ result.risk_percentage =
              860 + (IF CoOccurrence THEN 30 ELSE 0)
                  + (CASE Impact = "none" -> 0 [] Impact = "minor" -> 10
                       [] Impact = "moderate" -> 30 [] Impact = "serious" -> 50)
        /\ result.risk_percentage >= 860 /\ result.risk_percentage <= 940

\* scenario C with co_occurrence and serious impact: the highest risk, 94.0
C10_Witness ==
    /\ op = "_analyze_current_state"
    /\ IsPrefixAnswers(NumQuestions, "always", "always")
    /\ CoOccurrence /\ Impact = "serious"
    /\ result.raw_score = 52
    /\ result.risk_percentage = 940

-----------------------------------------------------------------------------
(* Test history: the rows DatabaseManager.get_user_mdq_history returns,    *)
(* newest first (ORDER BY test_timestamp DESC)                             *)

\* a test_timestamp datetime.fromisoformat raises on
Unparsable == "not-a-date"

\* datetime.fromisoformat(test['test_timestamp'].replace('Z', '+00:00')) returns
Parses(test) == test.test_timestamp # Unparsable

\* list(reversed(s))
Reversed(s) == [i \in 1..Len(s) |-> s[Len(s) + 1 - i]]

\* s[:n]
Prefix(s, n) == SubSeq(s, 1, Min(n, Len(s)))

RECURSIVE SeqSum(_)
\* sum(s)
SeqSum(s) == IF s = <<>> THEN 0 ELSE Head(s) + SeqSum(Tail(s))

RECURSIVE SeqMax(_)
\* max(s) of a non-empty list
SeqMax(s) == IF Len(s) = 1 THEN s[1] ELSE Max(Head(s), SeqMax(Tail(s)))

Abs(n) == IF n < 0 THEN -n ELSE n

\* round(n/d) for n >= 0, d > 0, ties to the even neighbour as Python's round
RoundHalfEven(n, d) ==
    LET q == n \div d
        r == n % d
    IN  IF 2 * r < d THEN q
        ELSE IF 2 * r > d THEN q + 1
        ELSE IF q % 2 = 0 THEN q ELSE q + 1

\* list(ImprovementTrend), best first
ImprovementTrend ==
    <<"significant_improvement", "moderate_improvement", "mild_improvement",
      "stable", "mild_deterioration", "moderate_deterioration",
      "significant_deterioration">>

\* analyse.py MDQAnalyzer._extract_mdq_score_from_test for a row whose raw_score
\* is set: a total above 13 is taken as a FiveLevel total and divided by 3
_extract_mdq_score_from_test(test) ==
    IF test.raw_score > 13
    THEN Min(13, Max(0, test.raw_score \div 3))
    ELSE test.raw_score

\* unnamed/part_000 MDQAnalyzer._extract_raw_score_from_test: the row's raw_score
_extract_raw_score_from_test(test) == test.raw_score

\* n times the sum of the products minus the product of the sums: n^2 times the
\* covariance of a and b
CoMoment(a, b) ==
    Len(a) * SeqSum([i \in 1..Len(a) |-> a[i] * b[i]]) - SeqSum(a) * SeqSum(b)

\* floor(10000 * n / d) for 0 <= n <= d, d > 0, by long division in two steps
\* of 100 (keeps the intermediate products small)
Myriads(n, d) ==
    LET first == (100 * n) \div d
        rest == (100 * n) % d
    IN  100 * first + (100 * rest) \div d

\* min(0.95, abs(np.corrcoef(x, scores)[0, 1]) + 0.1) with x = np.arange(len(scores)),
\* in hundredths, truncated.  For a constant series the coefficient is nan (0/0,
\* a warning and no exception), and min(0.95, nan) is 0.95: min keeps its first
\* argument unless a later one compares smaller, which nan never does.
RegressionConfidence(scores) ==
    LET x == [i \in 1..Len(scores) |-> i - 1]
        sxy == CoMoment(x, scores)
        sxx == CoMoment(x, x)
        syy == CoMoment(scores, scores)
    IN  IF syy = 0 THEN 95
        ELSE Min(95, 10 + Cardinality({j \in 1..100 :
                                j * j <= Myriads(sxy * sxy, sxx * syy)}))

\* the if/elif chain of the regression branch: change_percentage = 100 * change /
\* base with base > 0, and the cutoffs mild <= moderate <= significant
TrendBucket(change, base, mild, moderate, significant) ==
    IF 100 * Abs(change) < mild * base THEN "stable"
    ELSE IF 100 * change >= significant * base THEN "significant_improvement"
    ELSE IF 100 * change >= moderate * base THEN "moderate_improvement"
    ELSE IF 100 * change >= mild * base THEN "mild_improvement"
    ELSE IF 100 * change <= -significant * base THEN "significant_deterioration"
    ELSE IF 100 * change <= -moderate * base THEN "moderate_deterioration"
    ELSE "mild_deterioration"

\* _calculate_improvement_trend taking the change relative to the newest total
_calculate_improvement_trend_base_newest(scores, dates) ==
    LET oldest == scores[1]
        newest == scores[Len(scores)]
    IN  IF Len(scores) < 3
        THEN IF Len(scores) = 2
             THEN LET change == newest - oldest
                      base == Max(oldest, 1)
                  IN  IF 100 * Abs(change) <= 15 * base
                      THEN [trend |-> "stable", confidence |-> 60]
                      ELSE IF 100 * change <= -30 * base
                      THEN [trend |-> "mild_improvement", confidence |-> 70]
                      ELSE IF 100 * change >= 30 * base
                      THEN [trend |-> "mild_deterioration", confidence |-> 70]
                      ELSE IF change < 0
                      THEN [trend |-> "mild_improvement", confidence |-> 60]
                      ELSE [trend |-> "mild_deterioration", confidence |-> 60]
             ELSE [trend |-> "stable", confidence |-> 50]
        ELSE LET total_change == IF oldest > 0 THEN oldest - newest ELSE 0
             IN  [trend |-> TrendBucket(total_change, Max(newest, 1), 20, 30, 50),
                  confidence |-> RegressionConfidence(scores)]

\* analyse.py MDQAnalyzer._calculate_improvement_trend(scores, dates), scores
\* oldest first
_calculate_improvement_trend(scores, dates) ==
    LET oldest == scores[1]
        newest == scores[Len(scores)]
    IN  IF Len(scores) < 3
        THEN IF Len(scores) = 2
             THEN LET change == newest - oldest
                      base == Max(oldest, 1)
                  IN  IF 100 * Abs(change) <= 15 * base
                      THEN [trend |-> "stable", confidence |-> 60]
                      ELSE IF 100 * change <= -30 * base
                      THEN [trend |-> "mild_improvement", confidence |-> 70]
                      ELSE IF 100 * change >= 30 * base
                      THEN [trend |-> "mild_deterioration", confidence |-> 70]
                      ELSE IF change < 0
                      THEN [trend |-> "mild_improvement", confidence |-> 60]
                      ELSE [trend |-> "mild_deterioration", confidence |-> 60]
             ELSE [trend |-> "stable", confidence |-> 50]
        ELSE LET total_change == IF oldest > 0 THEN oldest - newest ELSE 0
             IN  [trend |-> TrendBucket(total_change, Max(oldest, 1), 20, 30, 50),
                  confidence |-> RegressionConfidence(scores)]

\* the FiveLevel _calculate_improvement_trend with the two-point change taken
\* as newest - oldest, the orientation of the Binary analyzer
_calculate_improvement_trend_five_change_newest_first(scores, dates) ==
    LET oldest == scores[1]
        newest == scores[Len(scores)]
    IN  IF Len(scores) < 3
        THEN IF Len(scores) = 2
             THEN LET change == newest - oldest
                      base == Max(newest, 1)
                  IN  IF 100 * Abs(change) <= 10 * base
                      THEN [trend |-> "stable", confidence |-> 60]
                      ELSE IF 100 * change >= 20 * base
                      THEN [trend |-> "mild_improvement", confidence |-> 70]
                      ELSE IF 100 * change <= -20 * base
                      THEN [trend |-> "mild_deterioration", confidence |-> 70]
                      ELSE IF change > 0
                      THEN [trend |-> "mild_improvement", confidence |-> 60]
                      ELSE [trend |-> "mild_deterioration", confidence |-> 60]
             ELSE [trend |-> "stable", confidence |-> 50]
        ELSE LET total_change == IF newest > 0 THEN oldest - newest ELSE 0
             IN  [trend |-> TrendBucket(total_change, Max(newest, 1), 15, 25, 40),
                  confidence |-> RegressionConfidence(scores)]

\* unnamed/part_000 MDQAnalyzer._calculate_improvement_trend(scores, dates)
_calculate_improvement_trend_five(scores, dates) ==
    LET oldest == scores[1]
        newest == scores[Len(scores)]
    IN  IF Len(scores) < 3
        THEN IF Len(scores) = 2
             THEN LET change == oldest - newest
                      base == Max(newest, 1)
                  IN  IF 100 * Abs(change) <= 10 * base
                      THEN [trend |-> "stable", confidence |-> 60]
                      ELSE IF 100 * change >= 20 * base
                      THEN [trend |-> "mild_improvement", confidence |-> 70]
                      ELSE IF 100 * change <= -20 * base
                      THEN [trend |-> "mild_deterioration", confidence |-> 70]
                      ELSE IF change > 0
                      THEN [trend |-> "mild_improvement", confidence |-> 60]
                      ELSE [trend |-> "mild_deterioration", confidence |-> 60]
             ELSE [trend |-> "stable", confidence |-> 50]
        ELSE LET total_change == IF newest > 0 THEN oldest - newest ELSE 0
             IN  [trend |-> TrendBucket(total_change, Max(newest, 1), 15, 25, 40),
                  confidence |-> RegressionConfidence(scores)]

\* [extract(test) for test in tests]
ScoresOf(tests, five) ==
    [i \in 1..Len(tests) |->
        IF five THEN _extract_raw_score_from_test(tests[i])
        ELSE _extract_mdq_score_from_test(tests[i])]

\* the fraction num/den np.mean returns, unreduced
Mean(s) == [num |-> SeqSum(s), den |-> Len(s)]

\* _analyze_historical_trends keeping the rows whose timestamp does not parse
_analyze_historical_trends_keep_unparsable(history) ==
    IF Len(history) < 2
    THEN [trend |-> "stable", confidence |-> 50,
          baseline |-> IF history # <<>>
                       THEN [num |-> _extract_mdq_score_from_test(history[1]),
                             den |-> 1]
                       ELSE [num |-> 0, den |-> 1],
          trend_data |-> <<>>]
    ELSE LET usable == Reversed(history)
             scores == ScoresOf(usable, FALSE)
             dates == [i \in 1..Len(usable) |-> usable[i].test_timestamp]
         IN  IF Len(scores) < 2
             THEN [trend |-> "stable", confidence |-> 50,
                   baseline |-> [num |-> IF scores # <<>> THEN scores[1] ELSE 0,
                                 den |-> 1],
                   trend_data |-> <<>>]
             ELSE LET baseline_window == Min(3, Len(scores) \div 2)
                      found == _calculate_improvement_trend(scores, dates)
                  IN  [trend |-> found.trend, confidence |-> found.confidence,
                       baseline |-> Mean(Prefix(scores, baseline_window)),
                       trend_data |-> scores]

\* analyse.py MDQAnalyzer._analyze_historical_trends(test_history); trend_data
\* keeps the score of every point (its date and deviations are left out)
_analyze_historical_trends(history) ==
    IF Len(history) < 2
    THEN [trend |-> "stable", confidence |-> 50,
          baseline |-> IF history # <<>>
                       THEN [num |-> _extract_mdq_score_from_test(history[1]),
                             den |-> 1]
                       ELSE [num |-> 0, den |-> 1],
          trend_data |-> <<>>]
    ELSE LET usable == SelectSeq(Reversed(history), Parses)
             scores == ScoresOf(usable, FALSE)
             dates == [i \in 1..Len(usable) |-> usable[i].test_timestamp]
         IN  IF Len(scores) < 2
             THEN [trend |-> "stable", confidence |-> 50,
                   baseline |-> [num |-> IF scores # <<>> THEN scores[1] ELSE 0,
                                 den |-> 1],
                   trend_data |-> <<>>]
             ELSE LET baseline_window == Min(3, Len(scores) \div 2)
                      found == _calculate_improvement_trend(scores, dates)
                  IN  [trend |-> found.trend, confidence |-> found.confidence,
                       baseline |-> Mean(Prefix(scores, baseline_window)),
                       trend_data |-> scores]

\* unnamed/part_000 MDQAnalyzer._analyze_historical_trends(test_history)
_analyze_historical_trends_five(history) ==
    IF Len(history) < 2
    THEN [trend |-> "stable", confidence |-> 50,
          baseline |-> IF history # <<>>
                       THEN [num |-> _extract_raw_score_from_test(history[1]),
                             den |-> 1]
                       ELSE [num |-> 0, den |-> 1],
          trend_data |-> <<>>]
    ELSE LET usable == SelectSeq(Reversed(history), Parses)
             scores == ScoresOf(usable, TRUE)
             dates == [i \in 1..Len(usable) |-> usable[i].test_timestamp]
         IN  IF Len(scores) < 2
             THEN [trend |-> "stable", confidence |-> 50,
                   baseline |-> [num |-> IF scores # <<>> THEN scores[1] ELSE 0,
                                 den |-> 1],
                   trend_data |-> <<>>]
             ELSE LET baseline_window == Min(5, Len(scores) \div 2)
                      found == _calculate_improvement_trend_five(scores, dates)
                  IN  [trend |-> found.trend, confidence |-> found.confidence,
                       baseline |-> Mean(Prefix(scores, baseline_window)),
                       trend_data |-> scores]

\* round(max(0, min(1, 1 - cv / 2)), 2) in hundredths, with
\* cv = np.std(recent) / np.mean(recent) if np.mean(recent) > 0 else 1.
\* std/mean is sqrt(n * sum(x^2) - sum(x)^2) / sum(x); the score is 100 less the
\* rounded 50 * cv, and a cv of 1 gives 0.5.  A value halfway between two
\* hundredths goes to the even one, as round does for the halves a float holds
\* exactly (0.875 -> 0.88)
ConsistencyScore(recent) ==
    LET total == SeqSum(recent)
        spread == CoMoment(recent, recent)
        ratio == (10000 * spread) \div (total * total)
        half_steps == Cardinality({j \in 1..100 : (2 * j - 1) * (2 * j - 1) <= ratio})
        halfway == /\ (10000 * spread) % (total * total) = 0
                   /\ half_steps >= 1
                   /\ (2 * half_steps - 1) * (2 * half_steps - 1) = ratio
    IN  IF total > 0
        THEN IF halfway /\ (100 - half_steps) % 2 = 1
             THEN 100 - half_steps + 1
             ELSE 100 - half_steps
        ELSE 50

\* the dictionary _calculate_treatment_indicators returns: the insufficient-data
\* marker, or the residual_symptoms grade of the newest score (the speed,
\* maintenance and effectiveness grades are left out)
TreatmentIndicators(history, scores, minimal, mild, moderate) ==
    IF Len(history) < 3 THEN [insufficient_data |-> TRUE]
    ELSE IF Len(SelectSeq(history, Parses)) # Len(scores)
    THEN [insufficient_data |-> TRUE]
    ELSE [residual_symptoms |->
             IF scores[1] <= minimal THEN "minimal"
             ELSE IF scores[1] <= mild THEN "mild"
             ELSE IF scores[1] <= moderate THEN "moderate"
             ELSE "significant"]

\* analyse.py MDQAnalyzer._calculate_treatment_indicators(test_history, current_state)
_calculate_treatment_indicators(history, current_state) ==
    TreatmentIndicators(history, ScoresOf(history, FALSE), 2, 5, 8)

\* unnamed/part_000 MDQAnalyzer._calculate_treatment_indicators
_calculate_treatment_indicators_five(history, current_state) ==
    TreatmentIndicators(history, ScoresOf(history, TRUE), 4, 12, 20)

\* the dict {}
EmptyDict == [k \in {} |-> TRUE]

\* ImprovementOf with the oldest score, not the maximum, as the reference
ImprovementOf_from_oldest(scores) ==
    LET current_score == scores[1]
        reference == scores[Len(scores)]
    IN  [improvement_percentage |->
             IF reference > 0
             THEN IF reference >= current_score
                  THEN RoundHalfEven((reference - current_score) * 1000, reference)
                  ELSE -RoundHalfEven((current_score - reference) * 1000, reference)
             ELSE 0,
         consistency_score |->
             IF Len(scores) >= 3 THEN ConsistencyScore(Prefix(scores, 5))
             ELSE 50]

\* the improvement_percentage and consistency_score both analyzers compute from
\* the scores, newest first (percentage in tenths, consistency in hundredths)
ImprovementOf(scores) ==
    LET current_score == scores[1]
        max_historical == SeqMax(scores)
    IN  [improvement_percentage |->
             IF max_historical > 0
             THEN RoundHalfEven((max_historical - current_score) * 1000,
                                max_historical)
             ELSE 0,
         consistency_score |->
             IF Len(scores) >= 3 THEN ConsistencyScore(Prefix(scores, 5))
             ELSE 50]

\* analyse.py MDQAnalyzer._analyze_improvement_patterns(test_history, current_state);
\* the recovery_indicators and risk_factors texts are left out
_analyze_improvement_patterns(history, current_state) ==
    IF Len(history) < 2
    THEN [improvement_percentage |-> 0, consistency_score |-> 50,
          treatment_indicators |-> EmptyDict]
    ELSE LET found == ImprovementOf(ScoresOf(history, FALSE))
         IN  [improvement_percentage |-> found.improvement_percentage,
              consistency_score |-> found.consistency_score,
              treatment_indicators |->
                  _calculate_treatment_indicators(history, current_state)]

\* unnamed/part_000 MDQAnalyzer._analyze_improvement_patterns
_analyze_improvement_patterns_five(history, current_state) ==
    IF Len(history) < 2
    THEN [improvement_percentage |-> 0, consistency_score |-> 50,
          treatment_indicators |-> EmptyDict]
    ELSE LET found == ImprovementOf(ScoresOf(history, TRUE))
         IN  [improvement_percentage |-> found.improvement_percentage,
              consistency_score |-> found.consistency_score,
              treatment_indicators |->
                  _calculate_treatment_indicators_five(history, current_state)]

-----------------------------------------------------------------------------
(* The histories explored *)

\* totals stored in the rows of a step history
ScoreValues == {0, 1, 4, 5, 7, 10, 13, 16, 20, 24, 30, 52}

\* totals stored in the rows of a free history
FreeScores == {0, 5, 7, 10, 20}

\* a row of questionnaire_tests as get_user_mdq_history returns it (test_id,
\* interpretation and completion_time are left out); day numbers the parsable
\* timestamp, which ORDER BY test_timestamp DESC makes decrease along the list
TestRow(raw_score, day, parses) ==
    [raw_score |-> raw_score,
     test_timestamp |-> IF parses THEN "2024-01-0" \o ToString(day) ELSE Unparsable]

\* every history of at most MaxFreeHistory rows: any score of FreeScores and a
\* parsable or an unparsable timestamp in each row
FreeHistories ==
    UNION {{[i \in 1..n |-> TestRow(sc[i], n + 1 - i, ok[i])] :
                sc \in [1..n -> FreeScores], ok \in [1..n -> BOOLEAN]} :
           n \in 0..MaxFreeHistory}

\* histories of 3..MaxHistory rows with parsable timestamps: the k newest rows
\* score a, the older ones b
StepHistories ==
    UNION {{[i \in 1..n |-> TestRow(IF i <= k THEN a ELSE b, n + 1 - i, TRUE)] :
                k \in 1..n, a \in ScoreValues, b \in ScoreValues} :
           n \in 3..MaxHistory}

Histories == FreeHistories \cup StepHistories

\* the questionnaire nobody answered
BlankTestData == TestData([q \in {} |-> "no"], Absent, Absent)

-----------------------------------------------------------------------------
(* State machine of the history analyses *)

HistoryInit ==
    /\ test_history \in Histories
    /\ test_data = BlankTestData
    /\ detail_loads = TRUE
    /\ op = "none"
    /\ result = [none |-> TRUE]
    /\ NoArgs /\ NoStore /\ NoAccounts /\ NoProgress

\* analyse.py: MDQAnalyzer._analyze_historical_trends(test_history)
AnalyzeHistoricalTrends ==
    /\ op = "none"
    /\ op' = "_analyze_historical_trends"
    /\ result' = _analyze_historical_trends(test_history)
    /\ UNCHANGED <<inputs, store, accounts, progress>>

\* unnamed/part_000: MDQAnalyzer._analyze_historical_trends(test_history)
AnalyzeHistoricalTrendsFive ==
    /\ op = "none"
    /\ op' = "_analyze_historical_trends_five"
    /\ result' = _analyze_historical_trends_five(test_history)
    /\ UNCHANGED <<inputs, store, accounts, progress>>

\* analyse.py: MDQAnalyzer._analyze_improvement_patterns(test_history, mdq_analysis)
AnalyzeImprovementPatterns ==
    /\ op = "none"
    /\ op' = "_analyze_improvement_patterns"
    /\ result' = _analyze_improvement_patterns(
                     test_history, _analyze_mdq_standard(test_data))
    /\ UNCHANGED <<inputs, store, accounts, progress>>

\* unnamed/part_000: MDQAnalyzer._analyze_improvement_patterns(test_history,
\* current_state)
AnalyzeImprovementPatternsFive ==
    /\ op = "none"
    /\ op' = "_analyze_improvement_patterns_five"
    /\ result' = _analyze_improvement_patterns_five(
                     test_history, _analyze_current_state(test_data))
    /\ UNCHANGED <<inputs, store, accounts, progress>>

HistoryNext ==
    \/ AnalyzeHistoricalTrends
    \/ AnalyzeHistoricalTrendsFive
    \/ AnalyzeImprovementPatterns
    \/ AnalyzeImprovementPatternsFive

HistorySpec == HistoryInit /\ [][HistoryNext]_vars

-----------------------------------------------------------------------------
(* Recommendations and the comprehensive analysis *)

\* SeverityRecommendation with the positive_moderate interval of 2 days
SeverityRecommendation_moderate_two_days(mdq_result) ==
    IF mdq_result = "positive_high"
    THEN [monitoring_frequency |-> 1, emergency_flag |-> TRUE,
          recommendations |-> <<"care_positive_high">>]
    ELSE IF mdq_result = "positive_moderate"
    THEN [monitoring_frequency |-> 2, emergency_flag |-> FALSE,
          recommendations |-> <<"care_positive_moderate">>]
    ELSE IF mdq_result = "positive_mild"
    THEN [monitoring_frequency |-> 7, emergency_flag |-> FALSE,
          recommendations |-> <<"care_positive_mild">>]
    ELSE IF mdq_result = "positive_subclinical"
    THEN [monitoring_frequency |-> 14, emergency_flag |-> FALSE,
          recommendations |-> <<"care_positive_subclinical">>]
    ELSE [monitoring_frequency |-> 30, emergency_flag |-> FALSE,
          recommendations |-> <<"care_negative">>]

\* the first part of _generate_clinical_recommendations of analyse.py: the
\* monitoring_frequency and emergency_flag the mdq_result branch sets (the five
\* texts of each branch are abbreviated to one tag)
SeverityRecommendation(mdq_result) ==
    IF mdq_result = "positive_high"
    THEN [monitoring_frequency |-> 1, emergency_flag |-> TRUE,
          recommendations |-> <<"care_positive_high">>]
    ELSE IF mdq_result = "positive_moderate"
    THEN [monitoring_frequency |-> 3, emergency_flag |-> FALSE,
          recommendations |-> <<"care_positive_moderate">>]
    ELSE IF mdq_result = "positive_mild"
    THEN [monitoring_frequency |-> 7, emergency_flag |-> FALSE,
          recommendations |-> <<"care_positive_mild">>]
    ELSE IF mdq_result = "positive_subclinical"
    THEN [monitoring_frequency |-> 14, emergency_flag |-> FALSE,
          recommendations |-> <<"care_positive_subclinical">>]
    ELSE [monitoring_frequency |-> 30, emergency_flag |-> FALSE,
          recommendations |-> <<"care_negative">>]

\* the first part of _generate_clinical_recommendations of unnamed/part_000: the
\* branch on severity_level and raw_score
SeverityRecommendationFive(severity, raw_score) ==
    IF severity = "severe_risk" \/ raw_score >= 30
    THEN [monitoring_frequency |-> 1, emergency_flag |-> TRUE,
          recommendations |-> <<"care_severe_risk">>]
    ELSE IF severity = "high_risk"
    THEN [monitoring_frequency |-> 2, emergency_flag |-> FALSE,
          recommendations |-> <<"care_high_risk">>]
    ELSE IF severity = "moderate_risk"
    THEN [monitoring_frequency |-> 7, emergency_flag |-> FALSE,
          recommendations |-> <<"care_moderate_risk">>]
    ELSE IF severity = "mild_risk"
    THEN [monitoring_frequency |-> 14, emergency_flag |-> FALSE,
          recommendations |-> <<"care_mild_risk">>]
    ELSE [monitoring_frequency |-> 30, emergency_flag |-> FALSE,
          recommendations |-> <<"care_normal">>]

\* the trends the recommendations react to
SevereDeteriorations == {"significant_deterioration", "moderate_deterioration"}

\* analyse.py MDQAnalyzer._generate_clinical_recommendations (next_assessment_date,
\* now + monitoring_frequency days, is left out)
_generate_clinical_recommendations(mdq_analysis, historical_analysis, improvement_analysis) ==
    LET base == SeverityRecommendation(mdq_analysis.mdq_result)
        functional_impact == mdq_analysis.functional_impact_level
        deteriorating == historical_analysis.trend \in SevereDeteriorations
    IN  [recommendations |->
             base.recommendations
             \o (IF functional_impact = "serious_problems"
                 THEN <<"urgent_functional_rehabilitation">>
                 ELSE IF functional_impact = "moderate_problems"
                 THEN <<"more_functional_support">> ELSE <<>>)
             \o (IF deteriorating THEN <<"urgent_treatment_review">> ELSE <<>>)
             \o (IF improvement_analysis.consistency_score < 40
                 THEN <<"watch_symptom_stability">> ELSE <<>>),
         monitoring_frequency |->
             IF deteriorating THEN Min(base.monitoring_frequency, 2)
             ELSE base.monitoring_frequency,
         emergency_flag |->
             \/ base.emergency_flag
             \/ functional_impact = "serious_problems"
             \/ deteriorating]

\* unnamed/part_000 MDQAnalyzer._generate_clinical_recommendations (the texts on
\* symptom categories and bipolar indicators are left out)
_generate_clinical_recommendations_five(current_state, historical_analysis, improvement_analysis) ==
    LET base == SeverityRecommendationFive(
                    current_state.severity_level, current_state.raw_score)
        trend == historical_analysis.trend
    IN  [recommendations |->
             base.recommendations
             \o (IF trend \in SevereDeteriorations
                 THEN <<"urgent_treatment_review", "change_treatment_strategy">>
                 ELSE IF trend \in {"significant_improvement", "moderate_improvement"}
                 THEN <<"keep_treatment_strategy", "reduce_monitoring">>
                 ELSE <<>>)
             \o (IF improvement_analysis.consistency_score < 40
                 THEN <<"watch_symptom_stability", "consider_mood_stabiliser">>
                 ELSE <<>>)
             \o (IF improvement_analysis.improvement_percentage < -150
                 THEN <<"reassess_treatment_plan", "multidisciplinary_consultation">>
                 ELSE <<>>),
         monitoring_frequency |->
             IF trend \in SevereDeteriorations
             THEN Min(base.monitoring_frequency, 3)
             ELSE base.monitoring_frequency,
         emergency_flag |->
             \/ base.emergency_flag
             \/ improvement_analysis.improvement_percentage < -150]

\* analyse.py MDQAnalyzer._prepare_ai_analysis_data raises: assessment_span_days
\* parses the newest and the oldest timestamp outside any try block when the
\* history has more than one row (the data package itself is left out)
PrepareAiAnalysisDataRaises(history) ==
    /\ Len(history) > 1
    /\ ~Parses(history[1]) \/ ~Parses(history[Len(history)])

\* get_mdq_test_detail returned None
NoDetail == EmptyDict

\* analyse.py MDQAnalyzer._create_no_data_result
_create_no_data_result ==
    [outcome |-> "returned",
     status |-> "no_data",
     mdq_part1_score |-> 0,
     has_co_occurrence |-> FALSE,
     functional_impact_level |-> "no_problems",
     mdq_result |-> "negative",
     severity_level |-> "negative",
     risk_percentage |-> 0,
     improvement_trend |-> "stable",
     trend_confidence |-> 0,
     historical_baseline |-> [num |-> 0, den |-> 1],
     improvement_percentage |-> 0,
     consistency_score |-> 0,
     treatment_response_indicators |-> [insufficient_data |-> TRUE],
     clinical_recommendations |-> <<"complete_first_mdq", "establish_baseline">>,
     monitoring_frequency |-> 30,
     emergency_flag |-> FALSE]

\* unnamed/part_000 MDQAnalyzer._create_no_data_result
_create_no_data_result_five ==
    [outcome |-> "returned",
     status |-> "no_data",
     current_score |-> 0,
     raw_score |-> 0,
     severity_level |-> "normal",
     risk_percentage |-> 0,
     functional_impairment_level |-> "minimal",
     improvement_trend |-> "stable",
     trend_confidence |-> 0,
     historical_baseline |-> [num |-> 0, den |-> 1],
     improvement_percentage |-> 0,
     consistency_score |-> 0,
     treatment_response_indicators |-> [insufficient_data |-> TRUE],
     clinical_recommendations |-> <<"complete_first_mdq", "establish_baseline">>,
     monitoring_frequency |-> 30,
     emergency_flag |-> FALSE]

\* the call ended in an exception no handler of the analyzer catches
Raised(exception) == [outcome |-> "raised", exception |-> exception]

\* the AnalysisResult analyse.py assembles (outcome "returned"; status is the
\* 'status' of ai_analysis_data, which only the no-data result sets)
AnalysisResult(mdq_analysis, historical_analysis, improvement_analysis, recommendations) ==
    [outcome |-> "returned",
     status |-> "analysed",
     mdq_part1_score |-> mdq_analysis.part1_score,
     has_co_occurrence |-> mdq_analysis.has_co_occurrence,
     functional_impact_level |-> mdq_analysis.functional_impact_level,
     mdq_result |-> mdq_analysis.mdq_result,
     severity_level |-> mdq_analysis.severity_level,
     risk_percentage |-> mdq_analysis.risk_percentage,
     improvement_trend |-> historical_analysis.trend,
     trend_confidence |-> historical_analysis.confidence,
     historical_baseline |-> historical_analysis.baseline,
     improvement_percentage |-> improvement_analysis.improvement_percentage,
     consistency_score |-> improvement_analysis.consistency_score,
     treatment_response_indicators |-> improvement_analysis.treatment_indicators,
     clinical_recommendations |-> recommendations.recommendations,
     monitoring_frequency |-> recommendations.monitoring_frequency,
     emergency_flag |-> recommendations.emergency_flag]

\* the AnalysisResult unnamed/part_000 assembles
AnalysisResultFive(current_state, historical_analysis, improvement_analysis, recommendations) ==
    [outcome |-> "returned",
     status |-> "analysed",
     current_score |-> current_state.normalized_score,
     raw_score |-> current_state.raw_score,
     severity_level |-> current_state.severity_level,
     risk_percentage |-> current_state.risk_percentage,
     functional_impairment_level |-> current_state.impairment_level,
     improvement_trend |-> historical_analysis.trend,
     trend_confidence |-> historical_analysis.confidence,
     historical_baseline |-> historical_analysis.baseline,
     improvement_percentage |-> improvement_analysis.improvement_percentage,
     consistency_score |-> improvement_analysis.consistency_score,
     treatment_response_indicators |-> improvement_analysis.treatment_indicators,
     clinical_recommendations |-> recommendations.recommendations,
     monitoring_frequency |-> recommendations.monitoring_frequency,
     emergency_flag |-> recommendations.emergency_flag]

\* analyze_user_comprehensive calling _analyze_mdq_standard on whatever
\* get_mdq_test_detail returned: None['test_data'] raises TypeError
analyze_user_comprehensive_detail_unchecked(history, test_detail) ==
    IF history = <<>> THEN _create_no_data_result
    ELSE IF "test_data" \notin DOMAIN test_detail THEN Raised("TypeError")
    ELSE LET mdq_analysis == _analyze_mdq_standard(test_detail.test_data)
             historical_analysis == _analyze_historical_trends(history)
             improvement_analysis ==
                 _analyze_improvement_patterns(history, mdq_analysis)
         IN  IF PrepareAiAnalysisDataRaises(history) THEN Raised("ValueError")
             ELSE AnalysisResult(
                      mdq_analysis, historical_analysis, improvement_analysis,
                      _generate_clinical_recommendations(
                          mdq_analysis, historical_analysis, improvement_analysis))

\* analyse.py MDQAnalyzer.analyze_user_comprehensive, on the history
\* get_user_mdq_history returned and the detail get_mdq_test_detail returned for
\* its newest row (_save_analysis_result swallows its own errors)
analyze_user_comprehensive(history, test_detail) ==
    IF history = <<>> THEN _create_no_data_result
    ELSE IF "test_data" \notin DOMAIN test_detail THEN _create_no_data_result
    ELSE LET mdq_analysis == _analyze_mdq_standard(test_detail.test_data)
             historical_analysis == _analyze_historical_trends(history)
             improvement_analysis ==
                 _analyze_improvement_patterns(history, mdq_analysis)
         IN  IF PrepareAiAnalysisDataRaises(history) THEN Raised("ValueError")
             ELSE AnalysisResult(
                      mdq_analysis, historical_analysis, improvement_analysis,
                      _generate_clinical_recommendations(
                          mdq_analysis, historical_analysis, improvement_analysis))

\* unnamed/part_000 MDQAnalyzer.analyze_user_comprehensive
analyze_user_comprehensive_five(history, test_detail) ==
    IF history = <<>> THEN _create_no_data_result_five
    ELSE IF "test_data" \notin DOMAIN test_detail THEN _create_no_data_result_five
    ELSE LET current_state == _analyze_current_state(test_detail.test_data)
             historical_analysis == _analyze_historical_trends_five(history)
             improvement_analysis ==
                 _analyze_improvement_patterns_five(history, current_state)
         IN  IF PrepareAiAnalysisDataRaises(history) THEN Raised("ValueError")
             ELSE AnalysisResultFive(
                      current_state, historical_analysis, improvement_analysis,
                      _generate_clinical_recommendations_five(
                          current_state, historical_analysis, improvement_analysis))

-----------------------------------------------------------------------------
(* State machine of the comprehensive analysis *)

\* the questionnaires stored with the newest row: q1..qk answered 'always', the
\* rest 'no', with the co_occurrence and severity answers that reach every
\* result category
DetailData ==
    {TestData([q \in QIds |->
                  IF q \in {QIdSeq[i] : i \in 1..k} THEN "always" ELSE "no"],
              part[1], part[2]) :
        k \in {0, 4, 7, 8, 13},
        part \in {<<"no", "no">>, <<"yes", "no">>, <<"yes", "minor">>,
                  <<"yes", "moderate">>, <<"yes", "serious">>, <<"no", "serious">>}}

\* the rows get_user_mdq_history returns for the subject; the totals stored in
\* them were computed when each test was saved
AnalysisHistories ==
    {h \in FreeHistories : \A i \in 1..Len(h) : h[i].raw_score \in {0, 5, 7}}

AnalysisInit ==
    /\ test_history \in AnalysisHistories
    /\ \/ detail_loads = TRUE /\ test_data \in DetailData
       \/ detail_loads = FALSE /\ test_data = BlankTestData
    /\ op = "none"
    /\ result = [none |-> TRUE]
    /\ NoArgs /\ NoStore /\ NoAccounts /\ NoProgress

\* what get_mdq_test_detail(latest_test['test_id'], user_id) returns
TestDetail == IF detail_loads THEN [test_data |-> test_data] ELSE NoDetail

\* analyse.py: MDQAnalyzer.analyze_user_comprehensive(user_id)
AnalyzeUserComprehensive ==
    /\ op = "none"
    /\ op' = "analyze_user_comprehensive"
    /\ result' = analyze_user_comprehensive(test_history, TestDetail)
    /\ UNCHANGED <<inputs, store, accounts, progress>>

\* unnamed/part_000: MDQAnalyzer.analyze_user_comprehensive(user_id)
AnalyzeUserComprehensiveFive ==
    /\ op = "none"
    /\ op' = "analyze_user_comprehensive_five"
    /\ result' = analyze_user_comprehensive_five(test_history, TestDetail)
    /\ UNCHANGED <<inputs, store, accounts, progress>>

AnalysisNext ==
    \/ AnalyzeUserComprehensive
    \/ AnalyzeUserComprehensiveFive

AnalysisSpec == AnalysisInit /\ [][AnalysisNext]_vars

-----------------------------------------------------------------------------
(* Vocabulary of the history properties *)

TrendOps == {"_analyze_historical_trends", "_analyze_historical_trends_five"}

ImprovementOps ==
    {"_analyze_improvement_patterns", "_analyze_improvement_patterns_five"}

\* the entry point that ran belongs to the FiveLevel analyzer
IsFive ==
    op \in {"_analyze_historical_trends_five", "_analyze_improvement_patterns_five"}

\* the total a row contributes under the analyzer that ran
TotalOf(row) ==
    IF IsFive THEN row.raw_score
    ELSE IF row.raw_score > 13 THEN Min(13, row.raw_score \div 3)
    ELSE row.raw_score

\* the chronological totals of a history: its rows with a parsable timestamp,
\* oldest first
Chronological(history) ==
    LET kept == SelectSeq(history, Parses)
    IN  [i \in 1..Len(kept) |-> TotalOf(kept[Len(kept) + 1 - i])]

\* the totals of the history, newest first, timestamps disregarded
NewestFirst == [i \in 1..Len(test_history) |-> TotalOf(test_history[i])]

\* the trend analysis ran on 3 or more chronological totals
RegressionCase ==
    /\ op \in TrendOps
    /\ Len(test_history) >= 2
    /\ Len(Chronological(test_history)) >= 3

Improvements ==
    {"mild_improvement", "moderate_improvement", "significant_improvement"}

Deteriorations ==
    {"mild_deterioration", "moderate_deterioration", "significant_deterioration"}

\* the deterioration bucket of the same magnitude as an improvement bucket
Mirrored(trend) ==
    IF trend = "mild_improvement" THEN "mild_deterioration"
    ELSE IF trend = "moderate_improvement" THEN "moderate_deterioration"
    ELSE "significant_deterioration"

\* 0 for Stable, 1..3 for a Mild, Moderate or Significant bucket
Magnitude(trend) ==
    IF trend = "stable" THEN 0
    ELSE IF trend \in {"mild_improvement", "mild_deterioration"} THEN 1
    ELSE IF trend \in {"moderate_improvement", "moderate_deterioration"} THEN 2
    ELSE 3

-----------------------------------------------------------------------------
(* C11 *)

\* the bucket of the percent change (oldest - newest) / max(newest, 1) * 100
\* under the cutoffs mild, moderate, significant
C11_Bucket(oldest, newest, mild, moderate, significant) ==
    LET change == 100 * (oldest - newest)
        base == Max(newest, 1)
    IN  IF change >= significant * base THEN "significant_improvement"
        ELSE IF change >= moderate * base THEN "moderate_improvement"
        ELSE IF change >= mild * base THEN "mild_improvement"
        ELSE IF change <= -significant * base THEN "significant_deterioration"
        ELSE IF change <= -moderate * base THEN "moderate_deterioration"
        ELSE IF change <= -mild * base THEN "mild_deterioration"
        ELSE "stable"

\* C11: on 3 or more chronological totals the trend both analyzers report is the
\* bucket of (oldest - newest) / max(newest, 1) * 100 under the scheme's cutoffs
\* (FiveLevel 15/25/40, Binary 20/30/50), also when the oldest or the newest
\* total is 0; the totals [20, 20, 5] classify as significant_improvement.
C11_TrendIsBucketOfChange ==
    RegressionCase =>
        LET totals == Chronological(test_history)
            oldest == totals[1]
            newest == totals[Len(totals)]
        IN  /\ result.trend =
                   IF IsFive THEN C11_Bucket(oldest, newest, 15, 25, 40)
                   ELSE C11_Bucket(oldest, newest, 20, 30, 50)
            /\ totals = <<20, 20, 5>> => result.trend = "significant_improvement"

-----------------------------------------------------------------------------
(* C12 *)

\* the series with the same oldest total whose newest total is as far above it
\* as the newest total of totals is below it
C12_Mirror(totals) ==
    [i \in 1..Len(totals) |->
        IF i = Len(totals) THEN 2 * totals[1] - totals[Len(totals)]
        ELSE totals[i]]

\* the trend the analyzer that ran gives a series of totals
C12_TrendOf(totals) ==
    LET dates == [i \in 1..Len(totals) |-> "2024-01-0" \o ToString(i)]
    IN  IF IsFive THEN _calculate_improvement_trend_five(totals, dates).trend
        ELSE _calculate_improvement_trend(totals, dates).trend

\* C12: trend symmetry.  When a series of 3 or more totals whose newest total is
\* d below its oldest classifies as Mild, Moderate or Significant Improvement,
\* the series with the same oldest total and the newest total d above it
\* classifies as the Deterioration bucket of the same magnitude.
C12_TrendSymmetry ==
    (RegressionCase /\ result.trend \in Improvements) =>
        C12_TrendOf(C12_Mirror(Chronological(test_history)))
            = Mirrored(result.trend)

\* C12 as amended: under the Binary analyzer the mirrored series classifies as
\* the Deterioration bucket of the same magnitude; under the FiveLevel analyzer
\* it classifies as Stable or as a Deterioration bucket of the same or a smaller
\* magnitude, never as an Improvement.
C12_TrendSymmetryAmended ==
    (RegressionCase /\ result.trend \in Improvements) =>
        LET mirrored == C12_TrendOf(C12_Mirror(Chronological(test_history)))
        IN  IF IsFive
            THEN /\ mirrored \in Deteriorations \cup {"stable"}
                 /\ Magnitude(mirrored) <= Magnitude(result.trend)
            ELSE mirrored = Mirrored(result.trend)

\* a Binary series of 3 or more totals that improves moderately and whose mirror
\* deteriorates moderately
C12_Witness ==
    /\ RegressionCase
    /\ op = "_analyze_historical_trends"
    /\ result.trend = "moderate_improvement"
    /\ C12_TrendOf(C12_Mirror(Chronological(test_history)))
           = "moderate_deterioration"

-----------------------------------------------------------------------------
(* C13 *)

\* C13: a history with fewer than 2 usable points (empty, a single row, or rows
\* of which at most one has a parsable timestamp) gets the trend stable with
\* confidence 0.5, and as baseline the single score, or 0 when there is none.
C13_InsufficientHistory ==
    (op \in TrendOps
        /\ (Len(test_history) < 2 \/ Len(Chronological(test_history)) < 2)) =>
        LET single ==
                IF Len(test_history) = 1 THEN <<TotalOf(test_history[1])>>
                ELSE Chronological(test_history)
        IN  /\ result.trend = "stable"
            /\ result.confidence = 50
            /\ result.baseline.den = 1
            /\ result.baseline.num = IF single = <<>> THEN 0 ELSE single[1]

\* three rows of which only the middle one has a parsable timestamp: its score,
\* 10, is the baseline
C13_Witness ==
    /\ op \in TrendOps
    /\ Len(test_history) = 3
    /\ ~Parses(test_history[1]) /\ Parses(test_history[2]) /\ ~Parses(test_history[3])
    /\ test_history[2].raw_score = 10
    /\ result.baseline = [num |-> 10, den |-> 1]
    /\ result.trend = "stable"

-----------------------------------------------------------------------------
(* C14 *)

\* C14: the trend analysis of a constant series of 3 or more totals returns the
\* default: stable with confidence 0.5.
C14_ConstantSeriesDefault ==
    (RegressionCase
        /\ \A i \in 1..Len(Chronological(test_history)) :
               Chronological(test_history)[i] = Chronological(test_history)[1]) =>
        /\ result.trend = "stable"
        /\ result.confidence = 50

-----------------------------------------------------------------------------
(* C15 *)

\* C15: for a history of 3 or more rows whose (up to five) most recent totals
\* are all equal, consistency_score is 1, whatever the common value, 0 included.
C15_ConsistencyOfEqualTotals ==
    (op \in ImprovementOps
        /\ Len(test_history) >= 3
        /\ \A i \in 1..Min(5, Len(test_history)) : NewestFirst[i] = NewestFirst[1]) =>
        result.consistency_score = 100

-----------------------------------------------------------------------------
(* Vocabulary of the comprehensive-analysis properties *)

AnalysisOps == {"analyze_user_comprehensive", "analyze_user_comprehensive_five"}

\* analyze_user_comprehensive returned an analysis of the newest test
Analysed ==
    /\ op \in AnalysisOps
    /\ result.outcome = "returned"
    /\ result.status = "analysed"

\* some row of the history has a timestamp that does not parse
SomeUnparsable(history) == \E i \in 1..Len(history) : ~Parses(history[i])

\* how many levels the severity level of an analysis lies below the most severe
\* level of its scheme
StepsBelowTop(five, severity_level) ==
    IF five THEN Len(SeverityLevelFive) - LevelIndex(severity_level)
    ELSE Len(SeverityLevel)
             - (CHOOSE i \in 1..Len(SeverityLevel) : SeverityLevel[i] = severity_level)

\* what the severity branch of _generate_clinical_recommendations sets for an
\* analysis, before the functional-impact and trend adjustments
BaseRecommendation(five, analysis) ==
    IF five
    THEN SeverityRecommendationFive(analysis.severity_level, analysis.raw_score)
    ELSE SeverityRecommendation(analysis.mdq_result)

\* the current state the analyzer derives from a stored questionnaire
CurrentStateOf(five, td) ==
    IF five THEN _analyze_current_state(td) ELSE _analyze_mdq_standard(td)

-----------------------------------------------------------------------------
(* C16 *)

\* C16: before the trend adjustment, monitoring_frequency and the severity-driven
\* emergency flag are a function of the severity level alone: the most severe
\* level gives emergency with 1 day, successively less severe levels give 2, 7,
\* 14 and 30 days without emergency.
C16_LookupBySeverityLevel ==
    Analysed =>
        LET five == op = "analyze_user_comprehensive_five"
            base == BaseRecommendation(five, result)
            steps == StepsBelowTop(five, result.severity_level)
        IN  /\ base.monitoring_frequency = <<1, 2, 7, 14, 30>>[steps + 1]
            /\ base.emergency_flag = (steps = 0)

\* the Binary lookup: by result category
C16_BinaryTable ==
    [positive_high |-> 1, positive_moderate |-> 3, positive_mild |-> 7,
     positive_subclinical |-> 14, negative |-> 30]

\* the FiveLevel lookup below a raw total of 30: by severity level
C16_FiveLevelTable ==
    [severe_risk |-> 1, high_risk |-> 2, moderate_risk |-> 7, mild_risk |-> 14,
     normal |-> 30]

\* C16 as amended.  Binary: the base interval and emergency flag are a function
\* of the result category alone, positive_high giving emergency with 1 day and
\* positive_moderate, positive_mild, positive_subclinical, negative giving 3, 7,
\* 14, 30 days without emergency; a more severe severity level never gets a
\* longer interval.  FiveLevel: severe_risk or a raw total of 30 or more gives
\* emergency with 1 day; below 30, high_risk, moderate_risk, mild_risk, normal
\* give 2, 7, 14, 30 days without emergency, and among analyses with totals
\* below 30 a more severe level never gets a longer interval.  Unless the trend
\* is a moderate or significant deterioration, the base interval is the interval
\* returned.
C16_LookupAmended ==
    Analysed =>
        LET five == op = "analyze_user_comprehensive_five"
            base == BaseRecommendation(five, result)
        IN  /\ ~five =>
                /\ base.monitoring_frequency = C16_BinaryTable[result.mdq_result]
                /\ base.emergency_flag = (result.mdq_result = "positive_high")
            /\ five =>
                IF result.severity_level = "severe_risk" \/ result.raw_score >= 30
                THEN base.monitoring_frequency = 1 /\ base.emergency_flag
                ELSE /\ base.monitoring_frequency =
                            C16_FiveLevelTable[result.severity_level]
                     /\ ~base.emergency_flag
            /\ result.improvement_trend \notin SevereDeteriorations =>
                result.monitoring_frequency = base.monitoring_frequency
            /\ \A td \in DetailData :
                LET other == CurrentStateOf(five, td)
                    other_base == BaseRecommendation(five, other)
                IN  (/\ five => other.raw_score < 30 /\ result.raw_score < 30
                     /\ StepsBelowTop(five, other.severity_level)
                            < StepsBelowTop(five, result.severity_level))
                    => other_base.monitoring_frequency <= base.monitoring_frequency

\* a Binary analysis of a positive_moderate questionnaire with a stable trend:
\* the base interval of 3 days is the interval returned
C16_Witness ==
    /\ Analysed
    /\ op = "analyze_user_comprehensive"
    /\ result.mdq_result = "positive_moderate"
    /\ result.improvement_trend = "stable"
    /\ result.monitoring_frequency = 3
    /\ ~result.emergency_flag

-----------------------------------------------------------------------------
(* C17 *)

\* C17: whenever the trend is moderate_deterioration or
\* significant_deterioration, the returned monitoring_frequency is at most 2
\* days (Binary) or 3 days (FiveLevel) and emergency_flag is true, whatever the
\* severity level.
C17_DeteriorationRule ==
    (Analysed /\ result.improvement_trend \in SevereDeteriorations) =>
        /\ result.monitoring_frequency
               <= (IF op = "analyze_user_comprehensive_five" THEN 3 ELSE 2)
        /\ result.emergency_flag

-----------------------------------------------------------------------------
(* C18 *)

\* C18: when the subject has no recorded test, or the newest test's detail
\* cannot be loaded, analyze_user_comprehensive does not raise and returns the
\* no-data result: least-severe severity (negative / normal), risk 0, trend
\* stable, emergency_flag false, monitoring_frequency 30, treatment indicators
\* carrying the insufficient-data marker, and a recommendation list containing
\* the first-assessment entry.
C18_NoDataResult ==
    (op \in AnalysisOps /\ (test_history = <<>> \/ ~detail_loads)) =>
        /\ result.outcome = "returned"
        /\ result.severity_level =
               (IF op = "analyze_user_comprehensive_five"
                THEN SeverityLevelFive[1] ELSE SeverityLevel[1])
        /\ result.risk_percentage = 0
        /\ result.improvement_trend = "stable"
        /\ ~result.emergency_flag
        /\ result.monitoring_frequency = 30
        /\ "insufficient_data" \in DOMAIN result.treatment_response_indicators
        /\ result.treatment_response_indicators["insufficient_data"]
        /\ \E i \in 1..Len(result.clinical_recommendations) :
               result.clinical_recommendations[i] = "complete_first_mdq"

\* a subject with recorded tests whose newest detail does not load
C18_Witness ==
    /\ op = "analyze_user_comprehensive"
    /\ Len(test_history) >= 2
    /\ ~detail_loads
    /\ result.outcome = "returned"
    /\ result.status = "no_data"
    /\ result.monitoring_frequency = 30

-----------------------------------------------------------------------------
(* C19 *)

\* C19: for every history of 2 or more rows in which any row, the newest and the
\* oldest included, has an unparsable timestamp, analyze_user_comprehensive does
\* not raise: an AnalysisResult is returned.
C19_MalformedTimestampNotFatal ==
    (op \in AnalysisOps /\ Len(test_history) >= 2 /\ SomeUnparsable(test_history)) =>
        result.outcome = "returned"

-----------------------------------------------------------------------------
(* C20 *)

\* the current-state fields of a returned analysis
C20_CurrentState(analysis) ==
    IF "raw_score" \in DOMAIN analysis
    THEN <<analysis.raw_score, analysis.severity_level, analysis.risk_percentage>>
    ELSE <<analysis.mdq_part1_score, analysis.mdq_result, analysis.severity_level,
           analysis.risk_percentage>>

\* the analysis the analyzer that ran makes of another history
C20_AnalysisOf(history) ==
    IF op = "analyze_user_comprehensive_five"
    THEN analyze_user_comprehensive_five(history, TestDetail)
    ELSE analyze_user_comprehensive(history, TestDetail)

\* C20: for two histories of the same subject that share the newest row and
\* differ arbitrarily in the older rows, analyze_user_comprehensive returns the
\* same score, result category, severity_level and risk_percentage.
C20_CurrentStateIgnoresHistory ==
    (op \in AnalysisOps /\ detail_loads /\ test_history # <<>>) =>
        \A other \in AnalysisHistories :
            (other # <<>> /\ other[1] = test_history[1]) =>
                LET analysis == C20_AnalysisOf(other)
                IN  /\ result.outcome = "returned"
                    /\ analysis.outcome = "returned"
                    /\ C20_CurrentState(analysis) = C20_CurrentState(result)

\* the same for the pairs of histories on which both calls return
C20_AgreeWhenBothReturn ==
    (op \in AnalysisOps /\ detail_loads /\ test_history # <<>>
        /\ result.outcome = "returned") =>
        \A other \in AnalysisHistories :
            (other # <<>> /\ other[1] = test_history[1]
                /\ C20_AnalysisOf(other).outcome = "returned") =>
                C20_CurrentState(C20_AnalysisOf(other)) = C20_CurrentState(result)

-----------------------------------------------------------------------------
(* State machine of the risk calculations called directly *)

\* the part1_score / raw_score arguments explored: below, inside and above the
\* range of either scheme
RiskTotals == {-3, 0, 5, 8, 9, 13, 14, 26, 39, 52, 60}

\* the functional_impact_level arguments explored, one of them unrecognised
RiskImpactLevels == DOMAIN functional_risk \cup {"unknown"}

\* the weighted_score arguments explored, in tenths: multiples of the largest
\* weight, below, inside and above the range of a questionnaire
RiskWeightedScores == {k * MaxSymptomWeight : k \in {-5, 0, 20, 39, 52, 200}}

\* the test_data arguments explored: co_occurrence and severity present or
\* not, recognised or not
RiskTestData ==
    {TestData(EmptyDict, co, sev) :
        co \in {"yes", "no", "maybe", Absent},
        sev \in {"no", "minor", "moderate", "serious", "maybe", Absent}}

\* the arguments of the Binary _calculate_risk_percentage
RiskArgs ==
    [part1_score : RiskTotals, has_co_occurrence : BOOLEAN,
     functional_impact_level : RiskImpactLevels]

\* the arguments of the FiveLevel _calculate_risk_percentage
RiskArgsFive ==
    [raw_score : RiskTotals, weighted_score : RiskWeightedScores,
     bipolar_indicators : [DOMAIN bipolar_indicators -> {0, 1}],
     test_data : RiskTestData]

RiskInit ==
    /\ args \in RiskArgs \cup RiskArgsFive
    /\ test_data = BlankTestData
    /\ test_history = <<>>
    /\ detail_loads = TRUE
    /\ op = "none"
    /\ result = [none |-> TRUE]
    /\ NoStore /\ NoAccounts /\ NoProgress

\* analyse.py: MDQAnalyzer._calculate_risk_percentage(part1_score,
\* has_co_occurrence, functional_impact_level)
CalculateRiskPercentage ==
    /\ op = "none"
    /\ args \in RiskArgs
    /\ op' = "_calculate_risk_percentage"
    /\ result' = [risk_percentage |->
                     _calculate_risk_percentage(args.part1_score,
                         args.has_co_occurrence, args.functional_impact_level)]
    /\ UNCHANGED <<inputs, store, accounts, progress>>

\* unnamed/part_000: MDQAnalyzer._calculate_risk_percentage(raw_score,
\* weighted_score, bipolar_indicators, test_data)
CalculateRiskPercentageFive ==
    /\ op = "none"
    /\ args \in RiskArgsFive
    /\ op' = "_calculate_risk_percentage_five"
    /\ result' = [risk_percentage |->
                     _calculate_risk_percentage_five(args.raw_score,
                         args.weighted_score, args.bipolar_indicators,
                         args.test_data)]
    /\ UNCHANGED <<inputs, store, accounts, progress>>

RiskNext ==
    \/ CalculateRiskPercentage
    \/ CalculateRiskPercentageFive

RiskSpec == RiskInit /\ [][RiskNext]_vars

-----------------------------------------------------------------------------
(* C23 *)

\* C23: for every input either scheme's risk calculation accepts (any total,
\* weighted total, indicator assignment, co_occurrence and impact value,
\* recognised or not), 0 <= risk_percentage <= 100.
C23_RiskBounds ==
    op \in {"_calculate_risk_percentage", "_calculate_risk_percentage_five"} =>
        /\ result.risk_percentage >= 0
        /\ result.risk_percentage <= 1000

\* a Binary call whose components add up to 120 and is returned as 100
C23_Witness ==
    /\ op = "_calculate_risk_percentage"
    /\ args.part1_score >= 13
    /\ args.has_co_occurrence
    /\ args.functional_impact_level = "serious_problems"
    /\ result.risk_percentage = 1000

\* a FiveLevel call with a negative total and weighted total, returned as 0
C23_WitnessFive ==
    /\ op = "_calculate_risk_percentage_five"
    /\ args.raw_score < 0
    /\ args.weighted_score < 0
    /\ result.risk_percentage = 0

-----------------------------------------------------------------------------
(* C24 *)

\* the trend analysis ran on exactly 2 chronological totals
TwoPointCase ==
    /\ op \in TrendOps
    /\ Len(test_history) >= 2
    /\ Len(Chronological(test_history)) = 2

\* C24: on exactly 2 chronological totals the trend is only ever stable,
\* mild_improvement or mild_deterioration, with confidence 0.6 or 0.7 (0.6 for
\* stable); an improvement only when the newest total is lower than the oldest,
\* a deterioration only when it is higher, and equal totals give stable.
C24_TwoPointTrend ==
    TwoPointCase =>
        LET oldest == Chronological(test_history)[1]
            newest == Chronological(test_history)[2]
        IN  /\ result.trend \in {"stable", "mild_improvement", "mild_deterioration"}
            /\ result.confidence \in {60, 70}
            /\ result.trend = "stable" => result.confidence = 60
            /\ result.trend = "mild_improvement" => newest < oldest
            /\ result.trend = "mild_deterioration" => newest > oldest
            /\ newest = oldest => result.trend = "stable"

\* the FiveLevel analysis of a total falling from 10 to 5 across an unparsable
\* middle row: a mild improvement with confidence 0.7
C24_Witness ==
    /\ op = "_analyze_historical_trends_five"
    /\ Len(test_history) = 3
    /\ ~Parses(test_history[2])
    /\ Chronological(test_history) = <<10, 5>>
    /\ result.trend = "mild_improvement"
    /\ result.confidence = 70

-----------------------------------------------------------------------------
(* C25 *)

\* C25: for every history of non-negative totals the improvement_percentage
\* lies in [0, 100]: it is never below the -15 of the emergency rule nor the
\* -10 of the worsening risk factor.
C25_ImprovementRange ==
    op \in ImprovementOps =>
        /\ result.improvement_percentage >= 0
        /\ result.improvement_percentage <= 1000
        /\ ~(result.improvement_percentage < -150)
        /\ ~(result.improvement_percentage < -100)

\* a history whose newest total is above its oldest and below its maximum
C25_Witness ==
    /\ op \in ImprovementOps
    /\ Len(test_history) = 3
    /\ NewestFirst[3] < NewestFirst[1]
    /\ NewestFirst[1] < NewestFirst[2]
    /\ result.improvement_percentage > 0
    /\ result.improvement_percentage < 1000

-----------------------------------------------------------------------------
(* C26 *)

\* C26: in every Binary recommendation bundle with emergency_flag true the
\* monitoring_frequency is at most 3 days; the flag is never raised while the
\* interval stays at 7, 14 or 30 days.
C26_EmergencyImpliesCloseMonitoring ==
    (Analysed /\ op = "analyze_user_comprehensive" /\ result.emergency_flag) =>
        result.monitoring_frequency <= 3

-----------------------------------------------------------------------------
(* State machine of the analyses of stored users: single calls and batches *)

UserIds == 1..MaxUsers

\* a stored questionnaire with q1..qk answered 'always' and the rest 'no'
StoredDetail(k, co, sev) ==
    TestData([q \in QIds |->
                 IF q \in {QIdSeq[i] : i \in 1..k} THEN "always" ELSE "no"],
             co, sev)

\* what the questionnaire_tests table holds for one user id: the rows
\* get_user_mdq_history returns and the detail get_mdq_test_detail returns for
\* the newest of them
Subject(history, loads, td) ==
    [test_history |-> history, detail_loads |-> loads, test_data |-> td]

\* the stored users explored: no test; one test with a negative, with a
\* positive_subclinical questionnaire; two tests of which the older has an
\* unparsable timestamp; three tests with rising totals and a positive_high
\* questionnaire; one test whose detail does not load
Subjects ==
    { Subject(<<>>, TRUE, BlankTestData),
      Subject(<<TestRow(0, 1, TRUE)>>, TRUE, StoredDetail(0, "no", "no")),
      Subject(<<TestRow(7, 1, TRUE)>>, TRUE, StoredDetail(7, "yes", "no")),
      Subject(<<TestRow(7, 2, TRUE), TestRow(7, 1, FALSE)>>, TRUE,
              StoredDetail(7, "yes", "moderate")),
      Subject(<<TestRow(7, 3, TRUE), TestRow(5, 2, TRUE), TestRow(5, 1, TRUE)>>,
              TRUE, StoredDetail(7, "yes", "serious")),
      Subject(<<TestRow(5, 1, TRUE)>>, FALSE, BlankTestData) }

\* the symptom fields of the AnalysisResult: symptom_profile (Binary),
\* symptom_severity_scores and bipolar_risk_indicators (FiveLevel)
SymptomsOf(five, td) ==
    IF five
    THEN [symptom_scores |-> _analyze_current_state(td).symptom_scores,
          bipolar_indicators |-> _analyze_current_state(td).bipolar_indicators]
    ELSE [symptom_profile |-> _analyze_mdq_standard(td).symptom_profile]

\* analyze_user_comprehensive(user_id) of either analyzer on what is stored for
\* the user: get_user_mdq_history and get_mdq_test_detail read
\* questionnaire_tests only
AnalysisOfStored(stored, five) ==
    LET detail == IF stored.detail_loads THEN [test_data |-> stored.test_data]
                  ELSE NoDetail
    IN  IF five
        THEN analyze_user_comprehensive_five(stored.test_history, detail)
        ELSE analyze_user_comprehensive(stored.test_history, detail)

\* the same for every explored subject, evaluated once
SubjectAnalyses ==
    [stored \in Subjects |->
        [five \in BOOLEAN |-> AnalysisOfStored(stored, five)]]

\* StoredAnalysis adding to the risk one tenth for every row of
\* mdq_analysis_results saved for the user: a result that feeds on earlier ones
StoredAnalysis_reads_saved_results(u, five) ==
    LET analysis == SubjectAnalyses[questionnaire_tests[u]][five]
        saved == {i \in 1..Len(mdq_analysis_results) :
                     mdq_analysis_results[i].user_id = u}
    IN  IF analysis.outcome = "returned" /\ analysis.status = "analysed"
        THEN [analysis EXCEPT !.risk_percentage = Min(1000, @ + Cardinality(saved))]
        ELSE analysis

\* what analyze_user_comprehensive(u) computes from the stored data
StoredAnalysis(u, five) == SubjectAnalyses[questionnaire_tests[u]][five]

\* the analysis is saved: _save_analysis_result runs only after an
\* AnalysisResult was assembled from a loaded detail
IsSaved(analysis) == analysis.outcome = "returned" /\ analysis.status = "analysed"

\* the row _save_analysis_result inserts; analysis_id is a fresh uuid4, here
\* the number of the row
SavedRow(u, five, analysis, saved_before) ==
    [analysis_id |-> saved_before + 1, user_id |-> u, five |-> five,
     analysis |-> analysis,
     symptoms |-> SymptomsOf(five, questionnaire_tests[u].test_data)]

\* what a caller of analyze_user_comprehensive(u) gets
CallResult(u, five, analysis, saved_before) ==
    [user_id |-> u, five |-> five, analysis |-> analysis,
     analysis_id |-> IF IsSaved(analysis) THEN saved_before + 1 ELSE 0,
     symptoms |-> IF IsSaved(analysis)
                  THEN SymptomsOf(five, questionnaire_tests[u].test_data)
                  ELSE EmptyDict]

StoreInit ==
    /\ questionnaire_tests \in [UserIds -> Subjects]
    /\ mdq_analysis_results = <<>>
    /\ test_data = BlankTestData
    /\ test_history = <<>>
    /\ detail_loads = TRUE
    /\ op = "none"
    /\ result = [none |-> TRUE]
    /\ NoArgs /\ NoAccounts /\ NoProgress

\* one call of analyze_user_comprehensive(u), any number of times and in any
\* order
AnalyzeStoredUser(u, five) ==
    LET analysis == StoredAnalysis(u, five)
        saved_before == Len(mdq_analysis_results)
    IN  /\ IsSaved(analysis) => saved_before < MaxSaved
        /\ op' = IF five THEN "analyze_user_comprehensive_five"
                 ELSE "analyze_user_comprehensive"
        /\ result' = CallResult(u, five, analysis, saved_before)
        /\ mdq_analysis_results' =
               IF IsSaved(analysis)
               THEN Append(mdq_analysis_results,
                           SavedRow(u, five, analysis, saved_before))
               ELSE mdq_analysis_results
        /\ UNCHANGED <<inputs, questionnaire_tests, accounts, progress>>

\* analyse.py: MDQAnalyzer.analyze_user_comprehensive(user_id)
AnalyzeUser == \E u \in UserIds : AnalyzeStoredUser(u, FALSE)

\* unnamed/part_000: MDQAnalyzer.analyze_user_comprehensive(user_id)
AnalyzeUserFive == \E u \in UserIds : AnalyzeStoredUser(u, TRUE)

\* SELECT DISTINCT user_id FROM questionnaire_tests: the ids with a stored
\* test, as the list the batch iterates over
BatchUserIds ==
    LET found == {u \in UserIds : questionnaire_tests[u].test_history # <<>>}
    IN  [i \in 1..Cardinality(found) |->
            CHOOSE u \in found : Cardinality({v \in found : v < u}) = i - 1]

\* a distribution dictionary with every key at 0
ZeroCounts(keys) == [k \in keys |-> 0]

\* the elements of a sequence
Elements(s) == {s[i] : i \in 1..Len(s)}

\* the locals of analyze_all_users before its loop; aborted stands for an
\* exception reaching the outer handler, saved for the rows the analyses insert
BatchLocals(five) ==
    [aborted |-> FALSE,
     severity_distribution |->
         ZeroCounts(Elements(IF five THEN SeverityLevelFive ELSE SeverityLevel)),
     mdq_result_distribution |->
         ZeroCounts({"negative", "positive_mild", "positive_moderate",
                     "positive_high"}),
     raw_score_distribution |->
         ZeroCounts({"0-8", "9-15", "16-25", "26-39"}),
     trend_distribution |-> ZeroCounts(Elements(ImprovementTrend)),
     emergency_users |-> <<>>,
     high_risk_users |-> <<>>,
     saved |-> <<>>]

\* the raw_score_distribution key of a total
RawScoreBucket(raw_score) ==
    IF raw_score <= 8 THEN "0-8"
    ELSE IF raw_score <= 15 THEN "9-15"
    ELSE IF raw_score <= 25 THEN "16-25"
    ELSE "26-39"

\* the body of the loop after analyze_user_comprehensive returned
BatchCount(five, acc, u, analysis, saved_before) ==
    LET counted ==
            [acc EXCEPT
                !.severity_distribution[analysis.severity_level] = @ + 1,
                !.trend_distribution[analysis.improvement_trend] = @ + 1,
                !.saved = IF IsSaved(analysis)
                          THEN Append(@, SavedRow(u, five, analysis,
                                                  saved_before + Len(@)))
                          ELSE @]
        by_result ==
            IF five
            THEN [counted EXCEPT
                     !.raw_score_distribution[RawScoreBucket(analysis.raw_score)]
                         = @ + 1]
            ELSE IF analysis.mdq_result \in DOMAIN counted.mdq_result_distribution
            THEN [counted EXCEPT
                     !.mdq_result_distribution[analysis.mdq_result] = @ + 1]
            ELSE counted
        high_risk ==
            IF five THEN analysis.severity_level \in {"high_risk", "severe_risk"}
            ELSE analysis.mdq_result \in {"positive_high", "positive_moderate"}
    IN  IF analysis.emergency_flag
        THEN [by_result EXCEPT !.emergency_users = Append(@, u)]
        ELSE IF high_risk
        THEN [by_result EXCEPT !.high_risk_users = Append(@, u)]
        ELSE by_result

\* one iteration of the loop without its try / except: an exception of the
\* analysis reaches the outer handler
BatchStep_without_try(five, acc, u, saved_before) ==
    LET analysis == StoredAnalysis(u, five)
    IN  IF acc.aborted THEN acc
        ELSE IF analysis.outcome = "raised" THEN [acc EXCEPT !.aborted = TRUE]
        ELSE BatchCount(five, acc, u, analysis, saved_before)

\* one iteration of the loop: try the analysis and count it, except Exception:
\* continue
BatchStep(five, acc, u, saved_before) ==
    LET analysis == StoredAnalysis(u, five)
    IN  IF analysis.outcome = "raised" THEN acc
        ELSE BatchCount(five, acc, u, analysis, saved_before)

RECURSIVE BatchLoop(_, _, _, _)
\* for user_id in user_ids, from the i-th id on
BatchLoop(five, acc, i, saved_before) ==
    IF i > Len(BatchUserIds) THEN acc
    ELSE BatchLoop(five, BatchStep(five, acc, BatchUserIds[i], saved_before),
                   i + 1, saved_before)

\* the dictionary analyze_all_users returns: {} from the outer handler, else
\* the counts; the rates are kept as the counts they are computed from
BatchReport(five, acc) ==
    IF acc.aborted THEN EmptyDict
    ELSE IF five
    THEN [total_users |-> Len(BatchUserIds),
          severity_distribution |-> acc.severity_distribution,
          trend_distribution |-> acc.trend_distribution,
          raw_score_distribution |-> acc.raw_score_distribution,
          emergency_users |-> acc.emergency_users,
          high_risk_users |-> acc.high_risk_users]
    ELSE [total_users |-> Len(BatchUserIds),
          severity_distribution |-> acc.severity_distribution,
          mdq_result_distribution |-> acc.mdq_result_distribution,
          trend_distribution |-> acc.trend_distribution,
          emergency_users |-> acc.emergency_users,
          high_risk_users |-> acc.high_risk_users,
          positive_users |->
              acc.mdq_result_distribution["positive_mild"]
              + acc.mdq_result_distribution["positive_moderate"]
              + acc.mdq_result_distribution["positive_high"]]

\* one call of BatchAnalyzer.analyze_all_users()
AnalyzeAll(five) ==
    LET acc == BatchLoop(five, BatchLocals(five), 1, Len(mdq_analysis_results))
    IN  /\ Len(mdq_analysis_results) + Len(acc.saved) <= MaxSaved
        /\ op' = IF five THEN "analyze_all_users_five" ELSE "analyze_all_users"
        /\ result' = BatchReport(five, acc)
        /\ mdq_analysis_results' = mdq_analysis_results \o acc.saved
        /\ UNCHANGED <<inputs, questionnaire_tests, accounts, progress>>

\* analyse.py: BatchAnalyzer.analyze_all_users()
AnalyzeAllUsers == AnalyzeAll(FALSE)

\* unnamed/part_000: BatchAnalyzer.analyze_all_users()
AnalyzeAllUsersFive == AnalyzeAll(TRUE)

StoreNext ==
    \/ AnalyzeUser
    \/ AnalyzeUserFive
    \/ AnalyzeAllUsers
    \/ AnalyzeAllUsersFive

StoreSpec == StoreInit /\ [][StoreNext]_vars

-----------------------------------------------------------------------------
(* Vocabulary of the stored-user properties *)

BatchOps == {"analyze_all_users", "analyze_all_users_five"}

\* the user ids the batch finds and, of these, the ones whose analysis returns
FoundUsers == {u \in UserIds : questionnaire_tests[u].test_history # <<>>}

ReturningUsers(five) ==
    {u \in FoundUsers : StoredAnalysis(u, five).outcome = "returned"}

\* what must not differ between two analyses of the same stored history:
\* severity, risk percentage, symptom profile and trend, or the exception
ComparedFields(analysis, symptoms) ==
    IF analysis.outcome = "raised" THEN <<analysis.exception>>
    ELSE <<analysis.severity_level, analysis.risk_percentage,
           analysis.improvement_trend, symptoms>>

-----------------------------------------------------------------------------
(* C21 *)

-----------------------------------------------------------------------------
(* C22 *)

\* C22: an exception raised while analysing one user never aborts the batch:
\* total_users is the number of user ids found, and every user whose analysis
\* returns is counted exactly once in severity_distribution and exactly once
\* in trend_distribution.
C22_BatchIsolation ==
    op \in BatchOps =>
        LET five == op = "analyze_all_users_five"
            returning == ReturningUsers(five)
        IN  /\ "total_users" \in DOMAIN result
            /\ result.total_users = Cardinality(FoundUsers)
            /\ \A level \in DOMAIN result.severity_distribution :
                   result.severity_distribution[level] =
                       Cardinality({u \in returning :
                           StoredAnalysis(u, five).severity_level = level})
            /\ \A trend \in DOMAIN result.trend_distribution :
                   result.trend_distribution[trend] =
                       Cardinality({u \in returning :
                           StoredAnalysis(u, five).improvement_trend = trend})
            /\ \A u \in returning :
                   /\ StoredAnalysis(u, five).severity_level
                          \in DOMAIN result.severity_distribution
                   /\ StoredAnalysis(u, five).improvement_trend
                          \in DOMAIN result.trend_distribution

\* a batch over two users of which the first raises and the second is counted
C22_Witness ==
    /\ op = "analyze_all_users"
    /\ Cardinality(FoundUsers) = 2
    /\ StoredAnalysis(1, FALSE).outcome = "raised"
    /\ StoredAnalysis(2, FALSE).outcome = "returned"
    /\ result.total_users = 2
    /\ result.severity_distribution[StoredAnalysis(2, FALSE).severity_level] = 1

-----------------------------------------------------------------------------
(* C27 *)

\* C27: every user the Binary batch analysed is counted in exactly one bucket
\* of mdq_result_distribution, so that the buckets sum to the number of
\* analysed users, and positive_rate counts every user whose result category
\* is not 'negative'.
C27_ResultAccounting ==
    op = "analyze_all_users" =>
        LET returning == ReturningUsers(FALSE)
            counts == result.mdq_result_distribution
        IN  /\ SumOver(DOMAIN counts, counts) = Cardinality(returning)
            /\ result.positive_users =
                   Cardinality({u \in returning :
                       StoredAnalysis(u, FALSE).mdq_result # "negative"})

-----------------------------------------------------------------------------
(* State machine of the login: database.py DatabaseManager.login_user *)

\* the lock lasts while fewer than 900 seconds have passed
LockoutSeconds == 900

\* failed_login_attempts from which the account is locked
LockoutAttempts == 5

\* the clock advances in steps of 5 minutes
TickSeconds == 300

\* the time zones explored: UTC, UTC+8, UTC-5
UtcOffsets == {0, 28800, -18000}

\* the one registered username, and one that is not registered
Usernames == {"alice", "nobody"}

\* SQLite CURRENT_TIMESTAMP: the UTC time, as stored in last_failed_login
\* (the column holds <<>> for NULL and <<t>> for a timestamp)
CURRENT_TIMESTAMP == <<clock>>

\* datetime.now(): the server's local time, without a time zone
DatetimeNow == clock + utc_offset

\* the lockout test of login_user on the columns read
IsLockedOut(failed_attempts, last_failed) ==
    /\ failed_attempts >= LockoutAttempts
    /\ last_failed # <<>>
    /\ DatetimeNow - last_failed[1] < LockoutSeconds

LoginInit ==
    /\ users \in [alice : [failed_login_attempts : {0}, last_failed_login : {<<>>},
                           is_active : BOOLEAN]]
    /\ user_sessions = 0
    /\ clock = 0
    /\ utc_offset \in UtcOffsets
    /\ test_data = BlankTestData
    /\ test_history = <<>>
    /\ detail_loads = TRUE
    /\ op = "none"
    /\ result = [none |-> TRUE]
    /\ NoArgs /\ NoStore /\ NoProgress

\* time passes
Tick ==
    /\ clock < MaxTicks * TickSeconds
    /\ clock' = clock + TickSeconds
    /\ op' = "tick"
    /\ result' = [none |-> TRUE]
    /\ UNCHANGED <<inputs, store, users, user_sessions, utc_offset, progress>>

\* login_user(username, password): password_correct stands for the hash of the
\* password being the stored hash
LoginUser(username, password_correct) ==
    /\ op' = "login_user"
    /\ IF username \notin DOMAIN users
       THEN /\ result' = [success |-> FALSE, message |-> "user_not_found"]
            /\ UNCHANGED <<users, user_sessions>>
       ELSE LET user_record == users[username]
            IN  IF IsLockedOut(user_record.failed_login_attempts,
                               user_record.last_failed_login)
                THEN /\ result' = [success |-> FALSE, message |-> "locked"]
                     /\ UNCHANGED <<users, user_sessions>>
                ELSE IF ~user_record.is_active
                THEN /\ result' = [success |-> FALSE, message |-> "disabled"]
                     /\ UNCHANGED <<users, user_sessions>>
                ELSE IF ~password_correct
                THEN /\ user_record.failed_login_attempts < MaxFailed
                     /\ users' = [users EXCEPT
                            ![username].failed_login_attempts = @ + 1,
                            ![username].last_failed_login = CURRENT_TIMESTAMP]
                     /\ result' = [success |-> FALSE, message |-> "wrong_password"]
                     /\ UNCHANGED user_sessions
                ELSE /\ user_sessions < MaxSessions
                     /\ user_sessions' = user_sessions + 1
                     /\ users' = [users EXCEPT
                            ![username].failed_login_attempts = 0]
                     /\ result' = [success |-> TRUE, message |-> "logged_in"]
    /\ UNCHANGED <<inputs, store, clock, utc_offset, progress>>

LoginNext ==
    \/ Tick
    \/ \E username \in Usernames, password_correct \in BOOLEAN :
           LoginUser(username, password_correct)

LoginSpec == LoginInit /\ [][LoginNext]_vars

-----------------------------------------------------------------------------
(* C28 *)

\* C28: once the account has 5 failed password attempts since its last
\* successful login, every login attempt made less than 15 minutes after the
\* most recent failed attempt is rejected with the lockout message, even with
\* the correct password, creates no session and leaves the failure counter
\* alone; a successful login resets the counter to 0.
C28_Lockout ==
    [][(op' = "login_user" /\ clock' = clock) =>
          /\ (/\ users.alice.failed_login_attempts >= LockoutAttempts
              /\ users.alice.last_failed_login # <<>>
              /\ clock - users.alice.last_failed_login[1] < LockoutSeconds
              /\ result' # [success |-> FALSE, message |-> "user_not_found"])
             => /\ result' = [success |-> FALSE, message |-> "locked"]
                /\ user_sessions' = user_sessions
                /\ users' = users
          /\ result'.success => users'.alice.failed_login_attempts = 0]_vars

-----------------------------------------------------------------------------
(* State machine of the test progress API: app.py clear_test_progress,
   check_test_progress, save_test_progress, load_test_progress. The server
   runs requests concurrently (gunicorn.conf.py workers, app.run threaded),
   each on its own connection: a save-progress request is two steps, its
   SELECT and its write with the commit, and the other handlers run one
   statement. *)

\* the request bodies explored: "{}" is the empty JSON object
ProgressPayloads == {"{}", "a", "b"}

\* the logged-in users whose requests are explored
SessionUsers == {1, 2}

\* the rows of a user, as indices of the table
RowsOf(user_id) ==
    {i \in DOMAIN test_progress.rows : test_progress.rows[i].user_id = user_id}

\* ORDER BY updated_at DESC LIMIT 1: a row of the user that no row is newer than
NewestRows(user_id) ==
    {i \in RowsOf(user_id) :
        \A j \in RowsOf(user_id) :
            test_progress.rows[j].updated_at[1] <= test_progress.rows[i].updated_at[1]}

\* UPDATE test_progress SET progress_data = ?, updated_at = CURRENT_TIMESTAMP
\* WHERE user_id = ?
UpdateProgress(user_id, progress_json) ==
    [i \in DOMAIN test_progress.rows |->
        IF test_progress.rows[i].user_id = user_id
        THEN [test_progress.rows[i] EXCEPT !.progress_data = progress_json,
                                           !.updated_at = CURRENT_TIMESTAMP]
        ELSE test_progress.rows[i]]

\* INSERT INTO test_progress (user_id, progress_data) VALUES (?, ?)
InsertProgress(user_id, progress_json) ==
    Append(test_progress.rows,
           [id |-> Len(test_progress.rows) + 1, user_id |-> user_id,
            progress_data |-> progress_json, updated_at |-> CURRENT_TIMESTAMP])

ProgressInit ==
    /\ test_progress = [exists |-> FALSE, rows |-> <<>>]
    /\ requests = <<>>
    /\ users = <<>>
    /\ user_sessions = 0
    /\ clock = 0
    /\ utc_offset = 0
    /\ test_data = BlankTestData
    /\ test_history = <<>>
    /\ detail_loads = TRUE
    /\ args = <<>>
    /\ op = "none"
    /\ result = [none |-> TRUE]
    /\ NoStore

\* clear_test_progress: every DELETE of the handler is commented out
ClearTestProgress(user_id) ==
    /\ op' = "clear_test_progress"
    /\ args' = <<user_id>>
    /\ result' = [status |-> 200, success |-> TRUE, user_id |-> user_id]
    /\ UNCHANGED <<test_data, test_history, detail_loads, store, accounts, progress>>

\* check_test_progress
CheckTestProgress(user_id) ==
    /\ op' = "check_test_progress"
    /\ args' = <<user_id>>
    /\ result' = IF ~test_progress.exists
                 THEN [status |-> 500, success |-> FALSE]
                 ELSE [status |-> 200, success |-> TRUE,
                       has_progress |-> Cardinality(RowsOf(user_id)) > 0]
    /\ UNCHANGED <<test_data, test_history, detail_loads, store, accounts, progress>>

\* load_test_progress
LoadTestProgress(user_id) ==
    /\ op' = "load_test_progress"
    /\ args' = <<user_id>>
    /\ IF ~test_progress.exists
       THEN result' = [status |-> 500, success |-> FALSE]
       ELSE IF RowsOf(user_id) = {}
       THEN result' = [status |-> 404, success |-> FALSE]
       ELSE \E i \in NewestRows(user_id) :
                result' = [status |-> 200, success |-> TRUE,
                           progress |-> test_progress.rows[i].progress_data]
    /\ UNCHANGED <<test_data, test_history, detail_loads, store, accounts, progress>>

\* save_test_progress up to its SELECT: the body is checked, the table is
\* created and existing_record is read
SaveSelect(user_id, data) ==
    /\ args' = <<user_id, data>>
    /\ IF data = "{}"
       THEN /\ op' = "save_test_progress"
            /\ result' = [status |-> 400, success |-> FALSE]
            /\ UNCHANGED progress
       ELSE /\ Len(requests) < MaxRequests
            /\ op' = "save_test_progress_select"
            /\ result' = [none |-> TRUE]
            /\ test_progress' = [test_progress EXCEPT !.exists = TRUE]
            /\ requests' = Append(requests,
                   [user_id |-> user_id, progress_json |-> data,
                    existing_record |-> RowsOf(user_id) # {}])
    /\ UNCHANGED <<test_data, test_history, detail_loads, store, accounts>>

\* save_test_progress from its SELECT on: UPDATE or INSERT, commit, response
SaveWrite(r) ==
    LET request == requests[r]
    IN  /\ \/ request.existing_record
           \/ Len(test_progress.rows) < MaxRows
        /\ test_progress' = [test_progress EXCEPT !.rows =
               IF request.existing_record
               THEN UpdateProgress(request.user_id, request.progress_json)
               ELSE InsertProgress(request.user_id, request.progress_json)]
        /\ requests' = [i \in 1..(Len(requests) - 1) |->
                           IF i < r THEN requests[i] ELSE requests[i + 1]]
        /\ op' = "save_test_progress"
        /\ args' = <<request.user_id, request.progress_json>>
        /\ result' = [status |-> 200, success |-> TRUE]
        /\ UNCHANGED <<test_data, test_history, detail_loads, store, accounts>>

\* time passes between two requests
ProgressTick ==
    /\ clock < MaxProgressTicks * TickSeconds
    /\ clock' = clock + TickSeconds
    /\ op' = "tick"
    /\ result' = [none |-> TRUE]
    /\ args' = <<>>
    /\ UNCHANGED <<test_data, test_history, detail_loads, store, users,
                   user_sessions, utc_offset, progress>>

ProgressNext ==
    \/ ProgressTick
    \/ \E user_id \in SessionUsers : ClearTestProgress(user_id)
    \/ \E user_id \in SessionUsers : CheckTestProgress(user_id)
    \/ \E user_id \in SessionUsers : LoadTestProgress(user_id)
    \/ \E user_id \in SessionUsers, data \in ProgressPayloads :
           SaveSelect(user_id, data)
    \/ \E r \in DOMAIN requests : SaveWrite(r)

ProgressSpec == ProgressInit /\ [][ProgressNext]_vars

-----------------------------------------------------------------------------
(* C29, C30 *)

\* C29: after clear-progress has returned success for a user, has-progress
\* reports has_progress false and load-progress answers 404 for that user
\* until the user's next save-progress; the completed tests are unchanged.
\* Stated for the request of the same user that directly follows the clear, on
\* a database in which progress has been saved before (the table exists).
C29_ClearResets ==
    [][/\ op' = "clear_test_progress" => questionnaire_tests' = questionnaire_tests
       /\ (/\ op = "clear_test_progress" /\ result.success
           /\ test_progress.exists /\ args' = args) =>
             /\ op' = "check_test_progress" =>
                    result' = [status |-> 200, success |-> TRUE,
                               has_progress |-> FALSE]
             /\ op' = "load_test_progress" => result'.status = 404]_vars

\* C30: after any interleaving of save-progress requests the table holds at
\* most one row per user, and after a request has committed every row of the
\* user holds that request's data.
C30_OneRowPerUser ==
    [][/\ \A user_id \in SessionUsers :
              Cardinality({i \in DOMAIN test_progress'.rows :
                              test_progress'.rows[i].user_id = user_id}) <= 1
       /\ (op' = "save_test_progress" /\ result'.success) =>
              \A i \in DOMAIN test_progress'.rows :
                  test_progress'.rows[i].user_id = args'[1] =>
                      test_progress'.rows[i].progress_data = args'[2]]_vars


=============================================================================
